---- MODULE Spec2Model ----
(***************************************************************************)
(* Role-based access control and appointment booking of the EHR backend.   *)
(*                                                                         *)
(* The state is the content of the five tables (users, doctors, patients,  *)
(* appointments, medical_records), the requests that are between two       *)
(* database statements, and the last response the server returned.         *)
(* Every resolver of the schema is an operator over the tables and the     *)
(* caller; every mutation is an action.                                    *)
(*                                                                         *)
(* Python's None is the empty set and a present value v is {v}, so that a  *)
(* nullable column or an optional argument is a set of at most one value.  *)
(* Text is a sequence of one-character strings, so that icontains is a     *)
(* case-insensitive subsequence test and not an equality.                  *)
(***************************************************************************)
EXTENDS Integers, Sequences, FiniteSets, TLC

VARIABLES users, doctors, patients, appointments, medical_records,
          pending, response

vars == <<users, doctors, patients, appointments, medical_records,
          pending, response>>

tables == <<users, doctors, patients, appointments, medical_records>>

----------------------------------------------------------------------------
(* Bounds of the model. *)

\* most appointments rows the model lets the table hold
MaxAppts == 2

\* timestamps are 1..MaxTime
MaxTime == 2

----------------------------------------------------------------------------
(* Values. *)

None == {}

Some(v) == {v}

Val(o) == CHOOSE v \in o : TRUE

Timestamps == 1 .. MaxTime

\* appointment_date__date: the calendar day of a timestamp (two slots a day)
DateOf(t) == t \div 2

Dates == {DateOf(t) : t \in Timestamps}

Lower(ch) ==
    CASE ch = "A" -> "a"
      [] ch = "B" -> "b"
      [] ch = "F" -> "f"
      [] ch = "J" -> "j"
      [] ch = "X" -> "x"
      [] OTHER -> ch

LowerText(t) == [i \in 1 .. Len(t) |-> Lower(t[i])]

\* SQL LIKE %term% ignoring case; a NULL column (None) matches nothing
IContains(column, term) ==
    /\ column # None
    /\ LET text == LowerText(Val(column))
           want == LowerText(term)
       IN  \E i \in 1 .. (Len(text) - Len(want) + 1) :
               SubSeq(text, i, i + Len(want) - 1) = want

----------------------------------------------------------------------------
(* users/models.py *)

Role == {"PATIENT", "DOCTOR", "ADMIN"}

is_patient(user) == users[user].role = "PATIENT"

is_doctor(user) == users[user].role = "DOCTOR"

is_admin(user) == users[user].role = "ADMIN"

----------------------------------------------------------------------------
(* appointments/models.py *)

Status == {"SCHEDULED", "CONFIRMED", "IN_PROGRESS", "COMPLETED",
           "CANCELLED", "NO_SHOW"}

StatusDefault == "SCHEDULED"

DurationDefault == 30

\* the statuses the booking pre-check counts as holding a slot
BookedStatuses == {"SCHEDULED", "CONFIRMED"}

\* (variant: an appointment starting at this instant counts as upcoming)
is_upcoming_from_now(appointment, now) ==
    appointment.appointment_date >= now /\ appointment.status \in BookedStatuses

\* the property is_upcoming, with timezone.now() read as `now`
is_upcoming(appointment, now) ==
    appointment.appointment_date > now /\ appointment.status \in BookedStatuses

\* the property is_past, with timezone.now() read as `now`
is_past(appointment, now) == appointment.appointment_date < now

\* (variant: the table without its unique index)
UniqueTogetherOff(rows) == TRUE

\* (variant: the unique index covers the SCHEDULED and CONFIRMED rows only)
UniqueTogetherBooked(rows) ==
    \A a \in rows : \A b \in rows :
        (a.id # b.id /\ a.status \in BookedStatuses /\ b.status \in BookedStatuses) =>
            ~(a.doctor = b.doctor /\ a.appointment_date = b.appointment_date)

\* Meta.unique_together = ['doctor', 'appointment_date'], as the unique index
\* the table carries: no two rows of any status agree on both columns.
UniqueTogether(rows) ==
    \A a \in rows : \A b \in rows :
        (a.id # b.id) =>
            ~(a.doctor = b.doctor /\ a.appointment_date = b.appointment_date)

\* PositiveIntegerField: the column carries CHECK (duration_minutes >= 0)
DurationCheck(row) == row.duration_minutes >= 0

IntegrityErrorUnique ==
    <<"UNIQUE constraint failed: appointments.doctor_id, appointments.appointment_date">>

IntegrityErrorCheck == <<"CHECK constraint failed: duration_minutes">>

IntegrityErrorNotNull == <<"NOT NULL constraint failed: appointments.duration_minutes">>

\* What the database answers to writing `row` (an INSERT, or the UPDATE of the
\* row with row.id): the error it raises, or << >> when the write is accepted.
WriteErrors(rows, row) ==
    LET after == {r \in rows : r.id # row.id} \cup {row}
    IN  IF ~UniqueTogether(after) THEN IntegrityErrorUnique
        ELSE IF ~DurationCheck(row) THEN IntegrityErrorCheck
        ELSE << >>

\* the AutoField: one more than the largest id in the table
NextId(rows) ==
    IF rows = {} THEN 1
    ELSE 1 + (CHOOSE m \in {r.id : r \in rows} : \A r \in rows : r.id <= m)

----------------------------------------------------------------------------
(* ORM lookups shared by the resolvers. *)

\* Model.objects.get(id=id): the row, or None for DoesNotExist
Get(rows, id) == {r \in rows : r.id = id}

\* appointment.doctor.user == user / filter(doctor__user=user)
DoctorUserIs(row, user) ==
    \E d \in doctors : d.id = row.doctor /\ d.user = user

\* appointment.patient.user == user / filter(patient__user=user)
PatientUserIs(row, user) ==
    \E p \in patients : p.id = row.patient /\ p.user = user

UserOfDoctor(id) == {d.user : d \in Get(doctors, id)}

UserOfPatient(id) == {p.user : p \in Get(patients, id)}

----------------------------------------------------------------------------
(* Sessions and responses. *)

Sessions == {1, 2}

Idle == [pc |-> "idle"]

\* the payload a mutation returns: (entity, success, errors), tagged with the
\* field that was called and the caller it answered
Reply(op, caller, entity, success, errors) ==
    [op |-> op, caller |-> caller, entity |-> entity,
     success |-> success, errors |-> errors]

\* the response the session's client receives: the last one sent is kept
Answer(s, r) == response' = r

----------------------------------------------------------------------------
(* appointments/schema.py: CreateAppointment *)

\* (variant: mutate without the time-slot check)
CreateAppointmentRejectNoPrecheck(user, patient_id, doctor_id, appointment_date) ==
    IF ~(is_doctor(user) \/ is_admin(user))
    THEN <<"Only doctors and admins can create appointments">>
    ELSE IF Get(patients, patient_id) = None \/ Get(doctors, doctor_id) = None
    THEN <<"Patient or Doctor not found">>
    ELSE IF is_doctor(user) /\ UserOfDoctor(doctor_id) # Some(user)
    THEN <<"You can only create appointments for your patients">>
    ELSE << >>

\* (variant: the time-slot check counts a booked appointment as holding
\* every minute of its duration)
CreateAppointmentRejectOverlap(user, patient_id, doctor_id, appointment_date) ==
    IF ~(is_doctor(user) \/ is_admin(user))
    THEN <<"Only doctors and admins can create appointments">>
    ELSE IF Get(patients, patient_id) = None \/ Get(doctors, doctor_id) = None
    THEN <<"Patient or Doctor not found">>
    ELSE IF is_doctor(user) /\ UserOfDoctor(doctor_id) # Some(user)
    THEN <<"You can only create appointments for your patients">>
    ELSE IF \E a \in appointments :
                /\ a.doctor = doctor_id
                /\ a.appointment_date <= appointment_date
                /\ appointment_date < a.appointment_date + a.duration_minutes
                /\ a.status \in BookedStatuses
    THEN <<"This time slot is already booked">>
    ELSE << >>

\* The statements of mutate before the INSERT: the error the mutation returns
\* early, or << >> when it goes on to Appointment.objects.create.
CreateAppointmentReject(user, patient_id, doctor_id, appointment_date) ==
    IF ~(is_doctor(user) \/ is_admin(user))
    THEN <<"Only doctors and admins can create appointments">>
    ELSE IF Get(patients, patient_id) = None \/ Get(doctors, doctor_id) = None
    THEN <<"Patient or Doctor not found">>
    ELSE IF is_doctor(user) /\ UserOfDoctor(doctor_id) # Some(user)
    THEN <<"You can only create appointments for your patients">>
    ELSE IF \E a \in appointments :
                /\ a.doctor = doctor_id
                /\ a.appointment_date = appointment_date
                /\ a.status \in BookedStatuses
    THEN <<"This time slot is already booked">>
    ELSE << >>

\* (variant: the optional arguments are not passed on to the instance)
NewAppointmentRequiredOnly(patient_id, doctor_id, appointment_date, kwargs) ==
    [patient |-> patient_id,
     doctor |-> doctor_id,
     appointment_date |-> appointment_date,
     status |-> StatusDefault,
     notes |-> None,
     reason_for_visit |-> None,
     duration_minutes |-> Some(DurationDefault)]

\* Appointment(patient=, doctor=, appointment_date=, **kwargs): the instance
\* with the model's defaults for what kwargs leaves out.  duration_minutes is
\* kept optional here because kwargs may carry an explicit null for it.
NewAppointment(patient_id, doctor_id, appointment_date, kwargs) ==
    [patient |-> patient_id,
     doctor |-> doctor_id,
     appointment_date |-> appointment_date,
     status |-> StatusDefault,
     notes |-> IF "notes" \in DOMAIN kwargs THEN kwargs.notes ELSE None,
     reason_for_visit |-> IF "reason_for_visit" \in DOMAIN kwargs
                          THEN kwargs.reason_for_visit ELSE None,
     duration_minutes |-> IF "duration_minutes" \in DOMAIN kwargs
                          THEN kwargs.duration_minutes
                          ELSE Some(DurationDefault)]

\* the row an accepted INSERT of `instance` adds
InsertedRow(rows, instance) ==
    [id |-> NextId(rows),
     patient |-> instance.patient,
     doctor |-> instance.doctor,
     appointment_date |-> instance.appointment_date,
     status |-> instance.status,
     notes |-> instance.notes,
     reason_for_visit |-> instance.reason_for_visit,
     duration_minutes |-> Val(instance.duration_minutes)]

\* Appointment.objects.create: the database's answer to the INSERT
InsertErrors(rows, instance) ==
    IF instance.duration_minutes = None THEN IntegrityErrorNotNull
    ELSE WriteErrors(rows, InsertedRow(rows, instance))

\* (variant: no `except Exception`, the database's error leaves mutate)
CreateAppointmentFinishUncaught(s, user, instance) ==
    LET errors == InsertErrors(appointments, instance)
        row == InsertedRow(appointments, instance)
    IN  IF errors # << >>
        THEN /\ appointments' = appointments
             /\ Answer(s, [op |-> "createAppointment", caller |-> user,
                           raised |-> errors[1]])
        ELSE /\ appointments' = appointments \cup {row}
             /\ Answer(s, Reply("createAppointment", user, Some(row), TRUE, << >>))

\* the INSERT and the return that follows it (success, or `except Exception`)
CreateAppointmentFinish(s, user, instance) ==
    LET errors == InsertErrors(appointments, instance)
        row == InsertedRow(appointments, instance)
    IN  IF errors # << >>
        THEN /\ appointments' = appointments
             /\ Answer(s, Reply("createAppointment", user, None, FALSE, errors))
        ELSE /\ appointments' = appointments \cup {row}
             /\ Answer(s, Reply("createAppointment", user, Some(row), TRUE, << >>))

\* the whole of mutate with nothing running in between
CreateAppointment(s, user, patient_id, doctor_id, appointment_date, kwargs) ==
    LET errors == CreateAppointmentReject(user, patient_id, doctor_id, appointment_date)
    IN  /\ pending[s] = Idle
        /\ IF errors # << >>
           THEN /\ appointments' = appointments
                /\ Answer(s, Reply("createAppointment", user, None, FALSE, errors))
           ELSE CreateAppointmentFinish(s, user,
                    NewAppointment(patient_id, doctor_id, appointment_date, kwargs))
        /\ UNCHANGED <<users, doctors, patients, medical_records, pending>>

\* mutate up to the time-slot check: it returns early, or stands before the
\* INSERT while other requests run
CreateAppointmentBegin(s, user, patient_id, doctor_id, appointment_date, kwargs) ==
    LET errors == CreateAppointmentReject(user, patient_id, doctor_id, appointment_date)
    IN  /\ pending[s] = Idle
        /\ IF errors # << >>
           THEN /\ Answer(s, Reply("createAppointment", user, None, FALSE, errors))
                /\ UNCHANGED pending
           ELSE /\ pending' = [pending EXCEPT ![s] =
                        [pc |-> "insert", user |-> user,
                         instance |-> NewAppointment(patient_id, doctor_id,
                                                     appointment_date, kwargs)]]
                /\ UNCHANGED response
        /\ UNCHANGED tables

\* the INSERT of a request that passed the check, and its return
CreateAppointmentEnd(s) ==
    /\ pending[s].pc = "insert"
    /\ CreateAppointmentFinish(s, pending[s].user, pending[s].instance)
    /\ pending' = [pending EXCEPT ![s] = Idle]
    /\ UNCHANGED <<users, doctors, patients, medical_records>>

----------------------------------------------------------------------------
(* appointments/schema.py: UpdateAppointment *)

AppointmentFields ==
    {"appointment_date", "status", "reason_for_visit", "notes", "duration_minutes"}

\* allowed_fields = ['notes']
PatientAllowedFields == {"notes"}

\* {k: v for k, v in kwargs.items() if k in allowed_fields}
Restrict(kwargs, allowed_fields) ==
    [k \in (DOMAIN kwargs) \cap allowed_fields |-> kwargs[k]]

\* (variant: the patient branch without the ownership test)
UpdateAppointmentAllowedAnyPatient(user, appointment, kwargs) ==
    IF is_admin(user) THEN Some(kwargs)
    ELSE IF is_doctor(user) /\ DoctorUserIs(appointment, user) THEN Some(kwargs)
    ELSE IF is_patient(user)
    THEN Some(Restrict(kwargs, PatientAllowedFields))
    ELSE None

\* (variant: the patient branch without the allowed_fields filter)
UpdateAppointmentAllowedUnfiltered(user, appointment, kwargs) ==
    IF is_admin(user) THEN Some(kwargs)
    ELSE IF is_doctor(user) /\ DoctorUserIs(appointment, user) THEN Some(kwargs)
    ELSE IF is_patient(user) /\ PatientUserIs(appointment, user)
    THEN Some(kwargs)
    ELSE None

\* the permission chain of mutate: the kwargs that will be applied, or
\* None for the branch that returns "Permission denied"
UpdateAppointmentAllowed(user, appointment, kwargs) ==
    IF is_admin(user) THEN Some(kwargs)
    ELSE IF is_doctor(user) /\ DoctorUserIs(appointment, user) THEN Some(kwargs)
    ELSE IF is_patient(user) /\ PatientUserIs(appointment, user)
    THEN Some(Restrict(kwargs, PatientAllowedFields))
    ELSE None

\* for field, value in kwargs.items(): if value is not None: setattr(...)
Supplied(kwargs, field) == field \in DOMAIN kwargs /\ kwargs[field] # None

\* (variant: a field supplied as null is written as null)
ApplyAppointmentKwargsWithNull(appointment, kwargs) ==
    [id |-> appointment.id,
     patient |-> appointment.patient,
     doctor |-> appointment.doctor,
     appointment_date |-> IF Supplied(kwargs, "appointment_date")
                          THEN Val(kwargs.appointment_date)
                          ELSE appointment.appointment_date,
     status |-> IF Supplied(kwargs, "status")
                THEN Val(kwargs.status) ELSE appointment.status,
     notes |-> IF "notes" \in DOMAIN kwargs
               THEN kwargs.notes ELSE appointment.notes,
     reason_for_visit |-> IF "reason_for_visit" \in DOMAIN kwargs
                          THEN kwargs.reason_for_visit
                          ELSE appointment.reason_for_visit,
     duration_minutes |-> IF Supplied(kwargs, "duration_minutes")
                          THEN Val(kwargs.duration_minutes)
                          ELSE appointment.duration_minutes]

ApplyAppointmentKwargs(appointment, kwargs) ==
    [id |-> appointment.id,
     patient |-> appointment.patient,
     doctor |-> appointment.doctor,
     appointment_date |-> IF Supplied(kwargs, "appointment_date")
                          THEN Val(kwargs.appointment_date)
                          ELSE appointment.appointment_date,
     status |-> IF Supplied(kwargs, "status")
                THEN Val(kwargs.status) ELSE appointment.status,
     notes |-> IF Supplied(kwargs, "notes")
               THEN kwargs.notes ELSE appointment.notes,
     reason_for_visit |-> IF Supplied(kwargs, "reason_for_visit")
                          THEN kwargs.reason_for_visit
                          ELSE appointment.reason_for_visit,
     duration_minutes |-> IF Supplied(kwargs, "duration_minutes")
                          THEN Val(kwargs.duration_minutes)
                          ELSE appointment.duration_minutes]

\* (variant: the changed instance reaches the table although save() raised)
UpdateAppointmentFinishWritten(s, user, instance) ==
    LET errors == WriteErrors(appointments, instance)
    IN  /\ appointments' = {r \in appointments : r.id # instance.id} \cup {instance}
        /\ IF errors # << >>
           THEN Answer(s, Reply("updateAppointment", user, None, FALSE, errors))
           ELSE Answer(s, Reply("updateAppointment", user, Some(instance), TRUE, << >>))

\* appointment.save() and the return that follows it: the UPDATE writes every
\* column of the instance over the row with its id
UpdateAppointmentFinish(s, user, instance) ==
    LET errors == WriteErrors(appointments, instance)
    IN  IF errors # << >>
        THEN /\ appointments' = appointments
             /\ Answer(s, Reply("updateAppointment", user, None, FALSE, errors))
        ELSE /\ appointments' =
                    {r \in appointments : r.id # instance.id} \cup {instance}
             /\ Answer(s, Reply("updateAppointment", user, Some(instance), TRUE, << >>))

\* the whole of mutate with nothing running in between
UpdateAppointment(s, user, id, kwargs) ==
    LET found == Get(appointments, id)
        allowed == UpdateAppointmentAllowed(user, Val(found), kwargs)
    IN  /\ pending[s] = Idle
        /\ IF found = None
           THEN /\ appointments' = appointments
                /\ Answer(s, Reply("updateAppointment", user, None, FALSE,
                                   <<"Appointment not found">>))
           ELSE IF allowed = None
           THEN /\ appointments' = appointments
                /\ Answer(s, Reply("updateAppointment", user, None, FALSE,
                                   <<"Permission denied">>))
           ELSE UpdateAppointmentFinish(s, user,
                    ApplyAppointmentKwargs(Val(found), Val(allowed)))
        /\ UNCHANGED <<users, doctors, patients, medical_records, pending>>

\* mutate up to the setattr loop: it returns early, or holds the changed
\* instance in memory while other requests run
UpdateAppointmentBegin(s, user, id, kwargs) ==
    LET found == Get(appointments, id)
        allowed == UpdateAppointmentAllowed(user, Val(found), kwargs)
    IN  /\ pending[s] = Idle
        /\ IF found = None
           THEN /\ Answer(s, Reply("updateAppointment", user, None, FALSE,
                                   <<"Appointment not found">>))
                /\ UNCHANGED pending
           ELSE IF allowed = None
           THEN /\ Answer(s, Reply("updateAppointment", user, None, FALSE,
                                   <<"Permission denied">>))
                /\ UNCHANGED pending
           ELSE /\ pending' = [pending EXCEPT ![s] =
                        [pc |-> "save", user |-> user,
                         instance |-> ApplyAppointmentKwargs(Val(found), Val(allowed))]]
                /\ UNCHANGED response
        /\ UNCHANGED tables

\* appointment.save() of a request that holds its instance, and its return
UpdateAppointmentEnd(s) ==
    /\ pending[s].pc = "save"
    /\ UpdateAppointmentFinish(s, pending[s].user, pending[s].instance)
    /\ pending' = [pending EXCEPT ![s] = Idle]
    /\ UNCHANGED <<users, doctors, patients, medical_records>>

----------------------------------------------------------------------------
(* appointments/schema.py: Query *)

\* the role chain every list resolver starts from
AppointmentsVisibleTo(user) ==
    IF is_admin(user) THEN appointments
    ELSE IF is_doctor(user) THEN {a \in appointments : DoctorUserIs(a, user)}
    ELSE IF is_patient(user) THEN {a \in appointments : PatientUserIs(a, user)}
    ELSE {}

resolve_all_appointments(user) == AppointmentsVisibleTo(user)

resolve_appointment_by_id(user, id) ==
    LET found == Get(appointments, id)
    IN  IF found = None THEN None
        ELSE IF is_admin(user) THEN found
        ELSE IF is_doctor(user) /\ DoctorUserIs(Val(found), user) THEN found
        ELSE IF is_patient(user) /\ PatientUserIs(Val(found), user) THEN found
        ELSE None

resolve_appointments_by_date(user, date) ==
    LET queryset == {a \in appointments : DateOf(a.appointment_date) = date}
    IN  IF is_admin(user) THEN queryset
        ELSE IF is_doctor(user) THEN {a \in queryset : DoctorUserIs(a, user)}
        ELSE IF is_patient(user) THEN {a \in queryset : PatientUserIs(a, user)}
        ELSE {}

\* (variant: a doctor_id argument replaces the caller's own queryset)
resolve_doctor_appointments_by_arg(user, doctor_id, date) ==
    IF ~(is_admin(user) \/ is_doctor(user)) THEN {}
    ELSE {a \in (IF doctor_id # None THEN appointments
                 ELSE AppointmentsVisibleTo(user)) :
            /\ doctor_id # None => a.doctor = Val(doctor_id)
            /\ date # None => DateOf(a.appointment_date) = Val(date)}

\* doctor_id and date are optional; `if doctor_id:` skips an absent one
resolve_doctor_appointments(user, doctor_id, date) ==
    IF ~(is_admin(user) \/ is_doctor(user)) THEN {}
    ELSE {a \in AppointmentsVisibleTo(user) :
            /\ doctor_id # None => a.doctor = Val(doctor_id)
            /\ date # None => DateOf(a.appointment_date) = Val(date)}

resolve_patient_appointments(user, patient_id) ==
    {a \in AppointmentsVisibleTo(user) :
        patient_id # None => a.patient = Val(patient_id)}

\* `if search:` and `if status:` also skip an empty string
Truthy(text) == text # None /\ Val(text) # << >>

TruthyChoice(choice) == choice # None /\ Val(choice) # ""

SearchHit(a, term) ==
    \/ \E p \in Get(patients, a.patient) :
           \/ IContains(Some(users[p.user].first_name), term)
           \/ IContains(Some(users[p.user].last_name), term)
    \/ \E d \in Get(doctors, a.doctor) :
           \/ IContains(Some(users[d.user].first_name), term)
           \/ IContains(Some(users[d.user].last_name), term)
    \/ IContains(a.reason_for_visit, term)
    \/ IContains(a.notes, term)

resolve_search_appointments(user, search, status, start_date, end_date) ==
    {a \in AppointmentsVisibleTo(user) :
        /\ Truthy(search) => SearchHit(a, Val(search))
        /\ TruthyChoice(status) => a.status = Val(status)
        /\ start_date # None => DateOf(a.appointment_date) >= Val(start_date)
        /\ end_date # None => DateOf(a.appointment_date) <= Val(end_date)}

\* what a query field returns: one nullable object, or a list
Found(op, caller, entity) == [op |-> op, caller |-> caller, entity |-> entity]

Listed(op, caller, args, rows) ==
    [op |-> op, caller |-> caller, args |-> args, rows |-> rows]

AppointmentById(s, user, id) ==
    /\ pending[s] = Idle
    /\ Answer(s, Found("appointmentById", user, resolve_appointment_by_id(user, id)))
    /\ UNCHANGED <<tables, pending>>

AllAppointments(s, user) ==
    /\ pending[s] = Idle
    /\ Answer(s, Listed("allAppointments", user, << >>,
                        resolve_all_appointments(user)))
    /\ UNCHANGED <<tables, pending>>

AppointmentsByDate(s, user, date) ==
    /\ pending[s] = Idle
    /\ Answer(s, Listed("appointmentsByDate", user, [date |-> date],
                        resolve_appointments_by_date(user, date)))
    /\ UNCHANGED <<tables, pending>>

DoctorAppointments(s, user, doctor_id, date) ==
    /\ pending[s] = Idle
    /\ Answer(s, Listed("doctorAppointments", user,
                        [doctor_id |-> doctor_id, date |-> date],
                        resolve_doctor_appointments(user, doctor_id, date)))
    /\ UNCHANGED <<tables, pending>>

PatientAppointments(s, user, patient_id) ==
    /\ pending[s] = Idle
    /\ Answer(s, Listed("patientAppointments", user, [patient_id |-> patient_id],
                        resolve_patient_appointments(user, patient_id)))
    /\ UNCHANGED <<tables, pending>>

SearchAppointments(s, user, search, status, start_date, end_date) ==
    /\ pending[s] = Idle
    /\ Answer(s, Listed("searchAppointments", user,
                        [search |-> search, status |-> status,
                         start_date |-> start_date, end_date |-> end_date],
                        resolve_search_appointments(user, search, status,
                                                    start_date, end_date)))
    /\ UNCHANGED <<tables, pending>>

----------------------------------------------------------------------------
(* medical_records/schema.py.  A record keeps patient, doctor, visit_date, *)
(* the two required texts, symptoms for the nullable text columns and      *)
(* follow_up_required; lists are kept as sets, their order_by left out.    *)

FollowUpDefault == FALSE

MedicalRecordNotNull ==
    <<"NOT NULL constraint failed: medical_records.follow_up_required">>

\* (variant: a doctor may write a record in another doctor's name)
CreateMedicalRecordRejectAnyDoctor(user, patient_id, doctor_id) ==
    IF ~(is_doctor(user) \/ is_admin(user))
    THEN <<"Only doctors and admins can create medical records">>
    ELSE IF Get(patients, patient_id) = None \/ Get(doctors, doctor_id) = None
    THEN <<"Patient or Doctor not found">>
    ELSE << >>

CreateMedicalRecordReject(user, patient_id, doctor_id) ==
    IF ~(is_doctor(user) \/ is_admin(user))
    THEN <<"Only doctors and admins can create medical records">>
    ELSE IF Get(patients, patient_id) = None \/ Get(doctors, doctor_id) = None
    THEN <<"Patient or Doctor not found">>
    ELSE IF is_doctor(user) /\ UserOfDoctor(doctor_id) # {user}
    THEN <<"You can only create medical records for your patients">>
    ELSE << >>

\* MedicalRecord(patient=, doctor=, visit_date=, diagnosis=,
\* treatment_notes=, **kwargs) with the model's defaults
NewMedicalRecord(patient_id, doctor_id, visit_date, diagnosis, treatment_notes, kwargs) ==
    [patient |-> patient_id,
     doctor |-> doctor_id,
     visit_date |-> visit_date,
     diagnosis |-> diagnosis,
     treatment_notes |-> treatment_notes,
     symptoms |-> IF "symptoms" \in DOMAIN kwargs THEN kwargs.symptoms ELSE None,
     follow_up_required |-> IF "follow_up_required" \in DOMAIN kwargs
                            THEN kwargs.follow_up_required
                            ELSE Some(FollowUpDefault)]

InsertedMedicalRecord(rows, instance) ==
    [id |-> NextId(rows),
     patient |-> instance.patient,
     doctor |-> instance.doctor,
     visit_date |-> instance.visit_date,
     diagnosis |-> instance.diagnosis,
     treatment_notes |-> instance.treatment_notes,
     symptoms |-> instance.symptoms,
     follow_up_required |-> Val(instance.follow_up_required)]

CreateMedicalRecord(s, user, patient_id, doctor_id, visit_date, diagnosis, treatment_notes, kwargs) ==
    LET errors == CreateMedicalRecordReject(user, patient_id, doctor_id)
        instance == NewMedicalRecord(patient_id, doctor_id, visit_date,
                                     diagnosis, treatment_notes, kwargs)
        row == InsertedMedicalRecord(medical_records, instance)
    IN  /\ pending[s] = Idle
        /\ IF errors # << >>
           THEN /\ medical_records' = medical_records
                /\ Answer(s, Reply("createMedicalRecord", user, None, FALSE, errors))
           ELSE IF instance.follow_up_required = None
           THEN /\ medical_records' = medical_records
                /\ Answer(s, Reply("createMedicalRecord", user, None, FALSE,
                                   MedicalRecordNotNull))
           ELSE /\ medical_records' = medical_records \cup {row}
                /\ Answer(s, Reply("createMedicalRecord", user, Some(row), TRUE, << >>))
        /\ UNCHANGED <<users, doctors, patients, appointments, pending>>

\* (variant: a patient may also update the records about them)
UpdateMedicalRecordAllowedOwnPatient(user, medical_record) ==
    \/ is_admin(user)
    \/ is_doctor(user) /\ DoctorUserIs(medical_record, user)
    \/ is_patient(user) /\ PatientUserIs(medical_record, user)

\* the permission chain of UpdateMedicalRecord.mutate
UpdateMedicalRecordAllowed(user, medical_record) ==
    \/ is_admin(user)
    \/ is_doctor(user) /\ DoctorUserIs(medical_record, user)

\* for field, value in kwargs.items(): if value is not None: setattr(...)
ApplyMedicalRecordKwargs(medical_record, kwargs) ==
    [id |-> medical_record.id,
     patient |-> medical_record.patient,
     doctor |-> medical_record.doctor,
     visit_date |-> medical_record.visit_date,
     diagnosis |-> IF Supplied(kwargs, "diagnosis")
                   THEN Val(kwargs.diagnosis) ELSE medical_record.diagnosis,
     treatment_notes |-> IF Supplied(kwargs, "treatment_notes")
                         THEN Val(kwargs.treatment_notes)
                         ELSE medical_record.treatment_notes,
     symptoms |-> IF Supplied(kwargs, "symptoms")
                  THEN kwargs.symptoms ELSE medical_record.symptoms,
     follow_up_required |-> IF Supplied(kwargs, "follow_up_required")
                            THEN Val(kwargs.follow_up_required)
                            ELSE medical_record.follow_up_required]

UpdateMedicalRecord(s, user, id, kwargs) ==
    LET found == Get(medical_records, id)
    IN  /\ pending[s] = Idle
        /\ IF found = None
           THEN /\ medical_records' = medical_records
                /\ Answer(s, Reply("updateMedicalRecord", user, None, FALSE,
                                   <<"Medical record not found">>))
           ELSE IF ~UpdateMedicalRecordAllowed(user, Val(found))
           THEN /\ medical_records' = medical_records
                /\ Answer(s, Reply("updateMedicalRecord", user, None, FALSE,
                                   <<"Permission denied">>))
           ELSE LET row == ApplyMedicalRecordKwargs(Val(found), kwargs)
                IN  /\ medical_records' = (medical_records \ found) \cup {row}
                    /\ Answer(s, Reply("updateMedicalRecord", user, Some(row),
                                       TRUE, << >>))
        /\ UNCHANGED <<users, doctors, patients, appointments, pending>>

MedicalRecordsVisibleTo(user) ==
    IF is_admin(user) THEN medical_records
    ELSE IF is_doctor(user) THEN {r \in medical_records : DoctorUserIs(r, user)}
    ELSE IF is_patient(user) THEN {r \in medical_records : PatientUserIs(r, user)}
    ELSE {}

resolve_all_medical_records(user) == MedicalRecordsVisibleTo(user)

\* (variant: a doctor is given any medical record by id)
resolve_medical_record_by_id_any_doctor(user, id) ==
    LET found == Get(medical_records, id)
    IN  IF found = None THEN None
        ELSE IF is_admin(user) \/ is_doctor(user) THEN found
        ELSE IF is_patient(user) /\ PatientUserIs(Val(found), user) THEN found
        ELSE None

resolve_medical_record_by_id(user, id) ==
    LET found == Get(medical_records, id)
    IN  IF found = None THEN None
        ELSE IF is_admin(user) THEN found
        ELSE IF is_doctor(user) /\ DoctorUserIs(Val(found), user) THEN found
        ELSE IF is_patient(user) /\ PatientUserIs(Val(found), user) THEN found
        ELSE None

resolve_patient_medical_records(user, patient_id) ==
    {r \in MedicalRecordsVisibleTo(user) :
        patient_id # None => r.patient = Val(patient_id)}

\* a caller who is neither admin nor doctor gets none()
resolve_doctor_medical_records(user, doctor_id) ==
    IF ~(is_admin(user) \/ is_doctor(user)) THEN {}
    ELSE {r \in MedicalRecordsVisibleTo(user) :
            doctor_id # None => r.doctor = Val(doctor_id)}

MedicalRecordSearchHit(r, term) ==
    \/ IContains(Some(r.diagnosis), term)
    \/ IContains(r.symptoms, term)
    \/ IContains(Some(r.treatment_notes), term)
    \/ \E p \in Get(patients, r.patient) :
           \/ IContains(Some(users[p.user].first_name), term)
           \/ IContains(Some(users[p.user].last_name), term)

resolve_search_medical_records(user, search, start_date, end_date, follow_up_required) ==
    {r \in MedicalRecordsVisibleTo(user) :
        /\ Truthy(search) => MedicalRecordSearchHit(r, Val(search))
        /\ start_date # None => DateOf(r.visit_date) >= Val(start_date)
        /\ end_date # None => DateOf(r.visit_date) <= Val(end_date)
        /\ follow_up_required # None =>
               r.follow_up_required = Val(follow_up_required)}

AllMedicalRecords(s, user) ==
    /\ pending[s] = Idle
    /\ Answer(s, Listed("allMedicalRecords", user, << >>,
                        resolve_all_medical_records(user)))
    /\ UNCHANGED <<tables, pending>>

MedicalRecordById(s, user, id) ==
    /\ pending[s] = Idle
    /\ Answer(s, Found("medicalRecordById", user,
                       resolve_medical_record_by_id(user, id)))
    /\ UNCHANGED <<tables, pending>>

PatientMedicalRecords(s, user, patient_id) ==
    /\ pending[s] = Idle
    /\ Answer(s, Listed("patientMedicalRecords", user, [patient_id |-> patient_id],
                        resolve_patient_medical_records(user, patient_id)))
    /\ UNCHANGED <<tables, pending>>

DoctorMedicalRecords(s, user, doctor_id) ==
    /\ pending[s] = Idle
    /\ Answer(s, Listed("doctorMedicalRecords", user, [doctor_id |-> doctor_id],
                        resolve_doctor_medical_records(user, doctor_id)))
    /\ UNCHANGED <<tables, pending>>

SearchMedicalRecords(s, user, search, start_date, end_date, follow_up_required) ==
    /\ pending[s] = Idle
    /\ Answer(s, Listed("searchMedicalRecords", user,
                        [search |-> search, start_date |-> start_date,
                         end_date |-> end_date,
                         follow_up_required |-> follow_up_required],
                        resolve_search_medical_records(user, search, start_date,
                                                       end_date, follow_up_required)))
    /\ UNCHANGED <<tables, pending>>

----------------------------------------------------------------------------
(* patients/schema.py.  A profile keeps user, medical_record_number and,   *)
(* for the nullable columns, blood_type and address.                       *)

\* (variant: an appointment of the patient with any doctor counts)
HasAppointmentWithAnyone(patient, user) ==
    \E a \in appointments : a.patient = patient.id

\* (variant: a medical record written by the doctor counts as well)
HasAppointmentOrRecordWith(patient, user) ==
    \/ \E a \in appointments : a.patient = patient.id /\ DoctorUserIs(a, user)
    \/ \E m \in medical_records : m.patient = patient.id /\ DoctorUserIs(m, user)

\* patient.appointments.filter(doctor__user=user).exists(), and the join of
\* Patient.objects.filter(appointments__doctor__user=user).distinct()
HasAppointmentWith(patient, user) ==
    \E a \in appointments : a.patient = patient.id /\ DoctorUserIs(a, user)

PatientsVisibleTo(user) ==
    IF is_admin(user) THEN patients
    ELSE IF is_doctor(user) THEN {p \in patients : HasAppointmentWith(p, user)}
    ELSE IF is_patient(user) THEN {p \in patients : p.user = user}
    ELSE {}

resolve_all_patients(user) == PatientsVisibleTo(user)

\* the permission chain shared by patient_by_id and patient_by_mrn
PatientIfPermitted(user, found) ==
    IF found = None THEN None
    ELSE IF is_admin(user) THEN found
    ELSE IF is_doctor(user)
    THEN (IF HasAppointmentWith(Val(found), user) THEN found ELSE None)
    ELSE IF is_patient(user) /\ Val(found).user = user THEN found
    ELSE None

resolve_patient_by_id(user, id) == PatientIfPermitted(user, Get(patients, id))

resolve_patient_by_mrn(user, mrn) ==
    PatientIfPermitted(user, {p \in patients : p.medical_record_number = mrn})

PatientSearchHit(p, term) ==
    \/ IContains(Some(users[p.user].first_name), term)
    \/ IContains(Some(users[p.user].last_name), term)
    \/ IContains(Some(p.medical_record_number), term)

resolve_search_patients(user, search, blood_type) ==
    {p \in PatientsVisibleTo(user) :
        /\ Truthy(search) => PatientSearchHit(p, Val(search))
        /\ Truthy(blood_type) => p.blood_type = blood_type}

AllPatients(s, user) ==
    /\ pending[s] = Idle
    /\ Answer(s, Listed("allPatients", user, << >>, resolve_all_patients(user)))
    /\ UNCHANGED <<tables, pending>>

PatientById(s, user, id) ==
    /\ pending[s] = Idle
    /\ Answer(s, Found("patientById", user, resolve_patient_by_id(user, id)))
    /\ UNCHANGED <<tables, pending>>

PatientByMrn(s, user, mrn) ==
    /\ pending[s] = Idle
    /\ Answer(s, Found("patientByMrn", user, resolve_patient_by_mrn(user, mrn)))
    /\ UNCHANGED <<tables, pending>>

SearchPatients(s, user, search, blood_type) ==
    /\ pending[s] = Idle
    /\ Answer(s, Listed("searchPatients", user,
                        [search |-> search, blood_type |-> blood_type],
                        resolve_search_patients(user, search, blood_type)))
    /\ UNCHANGED <<tables, pending>>

\* the permission chain of UpdatePatient.mutate: the error it returns, or << >>
UpdatePatientReject(user, patient) ==
    IF is_admin(user) THEN << >>
    ELSE IF is_doctor(user)
    THEN (IF ~HasAppointmentWith(patient, user)
          THEN <<"You can only update your patients">> ELSE << >>)
    ELSE IF is_patient(user) /\ patient.user = user THEN << >>
    ELSE <<"Permission denied">>

\* (variant: the loop writes the address argument to medical_record_number too)
ApplyPatientKwargsNumbered(patient, kwargs) ==
    [id |-> patient.id,
     user |-> patient.user,
     medical_record_number |-> IF Supplied(kwargs, "address")
                               THEN Val(kwargs.address)
                               ELSE patient.medical_record_number,
     blood_type |-> IF Supplied(kwargs, "blood_type")
                    THEN kwargs.blood_type ELSE patient.blood_type,
     address |-> IF Supplied(kwargs, "address")
                 THEN kwargs.address ELSE patient.address]

ApplyPatientKwargs(patient, kwargs) ==
    [id |-> patient.id,
     user |-> patient.user,
     medical_record_number |-> patient.medical_record_number,
     blood_type |-> IF Supplied(kwargs, "blood_type")
                    THEN kwargs.blood_type ELSE patient.blood_type,
     address |-> IF Supplied(kwargs, "address")
                 THEN kwargs.address ELSE patient.address]

UpdatePatient(s, user, id, kwargs) ==
    LET found == Get(patients, id)
    IN  /\ pending[s] = Idle
        /\ IF found = None
           THEN /\ patients' = patients
                /\ Answer(s, Reply("updatePatient", user, None, FALSE,
                                   <<"Patient not found">>))
           ELSE IF UpdatePatientReject(user, Val(found)) # << >>
           THEN /\ patients' = patients
                /\ Answer(s, Reply("updatePatient", user, None, FALSE,
                                   UpdatePatientReject(user, Val(found))))
           ELSE LET row == ApplyPatientKwargs(Val(found), kwargs)
                IN  /\ patients' = (patients \ found) \cup {row}
                    /\ Answer(s, Reply("updatePatient", user, Some(row), TRUE, << >>))
        /\ UNCHANGED <<users, doctors, appointments, medical_records, pending>>

----------------------------------------------------------------------------
(* doctors/schema.py: CreateDoctor, UpdateDoctor, and patients/schema.py:  *)
(* CreatePatient.  A doctor profile keeps user, specialization,            *)
(* license_number and, for the nullable columns, office_location.          *)

UserDoesNotExist == <<"User matching query does not exist.">>

\* (variant: license_number without unique=True)
DoctorWriteErrorsAnyLicense(rows, row) ==
    IF \E d \in rows : d.id # row.id /\ d.user = row.user
    THEN <<"UNIQUE constraint failed: doctors.user_id">>
    ELSE << >>

\* user is a OneToOneField and license_number is unique=True
DoctorWriteErrors(rows, row) ==
    IF \E d \in rows : d.id # row.id /\ d.user = row.user
    THEN <<"UNIQUE constraint failed: doctors.user_id">>
    ELSE IF \E d \in rows : d.id # row.id /\ d.license_number = row.license_number
    THEN <<"UNIQUE constraint failed: doctors.license_number">>
    ELSE << >>

\* user is a OneToOneField and medical_record_number is unique=True
PatientWriteErrors(rows, row) ==
    IF \E p \in rows : p.id # row.id /\ p.user = row.user
    THEN <<"UNIQUE constraint failed: patients.user_id">>
    ELSE IF \E p \in rows :
                p.id # row.id /\ p.medical_record_number = row.medical_record_number
    THEN <<"UNIQUE constraint failed: patients.medical_record_number">>
    ELSE << >>

CreateDoctor(s, user, user_id, specialization, license_number, kwargs) ==
    LET row == [id |-> NextId(doctors),
                user |-> user_id,
                specialization |-> specialization,
                license_number |-> license_number,
                office_location |-> IF "office_location" \in DOMAIN kwargs
                                    THEN kwargs.office_location ELSE None]
        errors == IF ~is_admin(user) THEN <<"Only admins can create doctors">>
                  ELSE IF user_id \notin DOMAIN users THEN UserDoesNotExist
                  ELSE DoctorWriteErrors(doctors, row)
    IN  /\ pending[s] = Idle
        /\ IF errors # << >>
           THEN /\ doctors' = doctors
                /\ Answer(s, Reply("createDoctor", user, None, FALSE, errors))
           ELSE /\ doctors' = doctors \cup {row}
                /\ Answer(s, Reply("createDoctor", user, Some(row), TRUE, << >>))
        /\ UNCHANGED <<users, patients, appointments, medical_records, pending>>

CreatePatient(s, user, user_id, medical_record_number, kwargs) ==
    LET row == [id |-> NextId(patients),
                user |-> user_id,
                medical_record_number |-> medical_record_number,
                blood_type |-> IF "blood_type" \in DOMAIN kwargs
                               THEN kwargs.blood_type ELSE None,
                address |-> IF "address" \in DOMAIN kwargs
                            THEN kwargs.address ELSE None]
        errors == IF ~is_admin(user) THEN <<"Only admins can create patients">>
                  ELSE IF user_id \notin DOMAIN users THEN UserDoesNotExist
                  ELSE PatientWriteErrors(patients, row)
    IN  /\ pending[s] = Idle
        /\ IF errors # << >>
           THEN /\ patients' = patients
                /\ Answer(s, Reply("createPatient", user, None, FALSE, errors))
           ELSE /\ patients' = patients \cup {row}
                /\ Answer(s, Reply("createPatient", user, Some(row), TRUE, << >>))
        /\ UNCHANGED <<users, doctors, appointments, medical_records, pending>>

\* (variant: any doctor may update any doctor profile)
UpdateDoctorAllowedAnyDoctor(user, doctor) ==
    is_admin(user) \/ is_doctor(user)

\* the permission chain of UpdateDoctor.mutate
UpdateDoctorAllowed(user, doctor) ==
    is_admin(user) \/ (is_doctor(user) /\ doctor.user = user)

ApplyDoctorKwargs(doctor, kwargs) ==
    [id |-> doctor.id,
     user |-> doctor.user,
     specialization |-> IF Supplied(kwargs, "specialization")
                        THEN Val(kwargs.specialization) ELSE doctor.specialization,
     license_number |-> doctor.license_number,
     office_location |-> IF Supplied(kwargs, "office_location")
                         THEN kwargs.office_location ELSE doctor.office_location]

UpdateDoctor(s, user, id, kwargs) ==
    LET found == Get(doctors, id)
    IN  /\ pending[s] = Idle
        /\ IF found = None
           THEN /\ doctors' = doctors
                /\ Answer(s, Reply("updateDoctor", user, None, FALSE,
                                   <<"Doctor not found">>))
           ELSE IF ~UpdateDoctorAllowed(user, Val(found))
           THEN /\ doctors' = doctors
                /\ Answer(s, Reply("updateDoctor", user, None, FALSE,
                                   <<"Permission denied">>))
           ELSE LET row == ApplyDoctorKwargs(Val(found), kwargs)
                IN  /\ doctors' = (doctors \ found) \cup {row}
                    /\ Answer(s, Reply("updateDoctor", user, Some(row), TRUE, << >>))
        /\ UNCHANGED <<users, patients, appointments, medical_records, pending>>

----------------------------------------------------------------------------
(* doctors/schema.py: the doctor directory, resolved without any caller. *)

resolve_all_doctors == doctors

resolve_doctor_by_id(id) == Get(doctors, id)

resolve_doctor_by_license(license_number) ==
    {d \in doctors : d.license_number = license_number}

resolve_search_doctors(search, specialization) ==
    {d \in doctors :
        /\ Truthy(search) =>
             \/ IContains(Some(users[d.user].first_name), Val(search))
             \/ IContains(Some(users[d.user].last_name), Val(search))
             \/ IContains(Some(users[d.user].email), Val(search))
             \/ IContains(Some(d.specialization), Val(search))
             \/ IContains(Some(d.license_number), Val(search))
        /\ Truthy(specialization) => d.specialization = Val(specialization)}

----------------------------------------------------------------------------
(* users/schema.py.  A User is named by its primary key; its row is        *)
(* users[id].                                                              *)

\* info.context.user of a request that carries no valid token
AnonymousUser == 0

\* the field raised instead of returning: it resolves to null and the
\* message is put in the response's errors
Raised(op, caller, message) == [op |-> op, caller |-> caller, raised |-> message]

\* @login_required: the decorated resolver runs for an authenticated caller
\* only, PermissionDenied is raised for any other
login_required(s, op, user, resolver) ==
    IF user # AnonymousUser THEN resolver
    ELSE /\ pending[s] = Idle
         /\ Answer(s, Raised(op, user,
                             "You do not have permission to perform this action"))
         /\ UNCHANGED <<tables, pending>>

resolve_me(user) == Some(user)

resolve_all_users(user) == IF is_admin(user) THEN DOMAIN users ELSE {}

resolve_user_by_id(id) == IF id \in DOMAIN users THEN Some(id) ELSE None

\* CreateUser.mutate: no decorator, so any caller.  The password is hashed
\* and never read back.  create_user raises for an empty username, for a
\* username in use (unique=True) and for role=None (NOT NULL); the choices
\* of role are checked by full_clean() only, which save() does not call, and
\* without a role argument the column takes its default
CreateUser(s, caller, username, email, kwargs) ==
    LET id == 1 + (CHOOSE m \in DOMAIN users : \A u \in DOMAIN users : u <= m)
        row == [role |-> IF "role" \in DOMAIN kwargs
                         THEN Val(kwargs.role) ELSE "PATIENT",
                username |-> username,
                email |-> email,
                first_name |-> IF "first_name" \in DOMAIN kwargs
                               THEN Val(kwargs.first_name) ELSE << >>,
                last_name |-> << >>]
        errors == IF username = << >> THEN <<"The given username must be set">>
                  ELSE IF \E u \in DOMAIN users : users[u].username = username
                  THEN <<"UNIQUE constraint failed: users.username">>
                  ELSE IF "role" \in DOMAIN kwargs /\ kwargs.role = None
                  THEN <<"NOT NULL constraint failed: users.role">>
                  ELSE << >>
    IN  /\ pending[s] = Idle
        /\ IF errors # << >>
           THEN /\ users' = users
                /\ Answer(s, Reply("createUser", caller, None, FALSE, errors))
           ELSE /\ users' = users @@ (id :> row)
                /\ Answer(s, Reply("createUser", caller, Some(id), TRUE, << >>))
        /\ UNCHANGED <<doctors, patients, appointments, medical_records, pending>>

----------------------------------------------------------------------------
(* The fixture: one admin, two doctors and two patients with their users. *)

T_Ad == <<"A", "d">>
T_Jo == <<"J", "o">>
T_Bo == <<"B", "o">>
T_An == <<"A", "n">>
T_Ma == <<"M", "a">>
T_Fl == <<"F", "l">>
T_Xr == <<"X", "r">>

FixtureUsers ==
    (1 :> [role |-> "ADMIN", username |-> <<"u", "1">>, email |-> <<"e", "1">>,
          first_name |-> T_Ad, last_name |-> T_Ad]) @@
    (2 :> [role |-> "DOCTOR", username |-> <<"u", "2">>, email |-> <<"e", "2">>,
          first_name |-> T_Jo, last_name |-> T_Bo]) @@
    (3 :> [role |-> "DOCTOR", username |-> <<"u", "3">>, email |-> <<"e", "3">>,
          first_name |-> T_Bo, last_name |-> T_Ad]) @@
    (4 :> [role |-> "PATIENT", username |-> <<"u", "4">>, email |-> <<"e", "4">>,
          first_name |-> T_An, last_name |-> T_Ma]) @@
    (5 :> [role |-> "PATIENT", username |-> <<"u", "5">>, email |-> <<"e", "5">>,
          first_name |-> T_Ma, last_name |-> T_Jo])

FixtureDoctors ==
    {[id |-> 1, user |-> 2, specialization |-> <<"c", "a">>,
      license_number |-> <<"D", "1">>, office_location |-> None],
     [id |-> 2, user |-> 3, specialization |-> <<"d", "e">>,
      license_number |-> <<"D", "2">>, office_location |-> None]}

FixturePatients ==
    {[id |-> 1, user |-> 4, medical_record_number |-> <<"M", "1">>,
      blood_type |-> None, address |-> None],
     [id |-> 2, user |-> 5, medical_record_number |-> <<"M", "2">>,
      blood_type |-> None, address |-> None]}

Init ==
    /\ users = FixtureUsers
    /\ doctors = FixtureDoctors
    /\ patients = FixturePatients
    /\ appointments = {}
    /\ medical_records = {}
    /\ pending = [s \in Sessions |-> Idle]
    /\ response = [op |-> "none"]

\* ids a request may name: the rows' ids and one id no row has
IdArgs(rows) == {r.id : r \in rows} \cup {NextId(rows)}

----------------------------------------------------------------------------
(* Spec: the booking API called by one client at a time.  The admin, a     *)
(* doctor and a patient create appointments for either doctor and move or  *)
(* re-status them.                                                          *)

BookingCallers == {1, 2, 4}

BookingPatientArgs == {1, 3}

BookingCreateKwargs == {<< >>}

Next ==
    LET
        BookingUpdateKwargs ==
            {[status |-> Some("CANCELLED")], [status |-> Some("CONFIRMED")]}
            \cup {[appointment_date |-> Some(t)] : t \in Timestamps}
    IN
        \/ \E user \in BookingCallers : \E patient_id \in BookingPatientArgs :
           \E doctor_id \in IdArgs(doctors) : \E appointment_date \in Timestamps :
           \E kwargs \in BookingCreateKwargs :
               /\ Cardinality(appointments) < MaxAppts
               /\ CreateAppointment(1, user, patient_id, doctor_id, appointment_date, kwargs)
        \/ \E user \in BookingCallers : \E id \in IdArgs(appointments) :
           \E kwargs \in BookingUpdateKwargs :
               UpdateAppointment(1, user, id, kwargs)

Spec == Init /\ [][Next]_vars

----------------------------------------------------------------------------
(* Claims about booking. *)

\* (doctor_id, appointment_date) is held by a SCHEDULED or CONFIRMED row
SlotHeld(doctor_id, appointment_date) ==
    \E a \in appointments :
        /\ a.doctor = doctor_id
        /\ a.appointment_date = appointment_date
        /\ a.status \in BookedStatuses

\* the caller is an ADMIN, or the DOCTOR whose profile is doctor_id
AdminOrThatDoctor(user, doctor_id) ==
    \/ is_admin(user)
    \/ is_doctor(user) /\ UserOfDoctor(doctor_id) = Some(user)

RefusedAsBooked(r) ==
    /\ r.op = "createAppointment"
    /\ r.success = FALSE
    /\ r.errors = <<"This time slot is already booked">>
    /\ r.entity = None

\* C3 as stated: whenever a SCHEDULED or CONFIRMED appointment of doctor D at T
\* exists, every createAppointment for (D, T) by an ADMIN or by D is refused
\* with the conflict error, returns no appointment and leaves the table as it
\* was - whatever patient_id the call names.
C3_AnyPatientId ==
    [][\A user \in BookingCallers : \A patient_id \in BookingPatientArgs :
       \A a \in appointments : \A kwargs \in BookingCreateKwargs :
          ( /\ response'.caller = user
            /\ a.status \in BookedStatuses
            /\ AdminOrThatDoctor(user, a.doctor)
            /\ CreateAppointment(1, user, patient_id, a.doctor, a.appointment_date, kwargs) )
          => (RefusedAsBooked(response') /\ appointments' = appointments)]_vars

\* C3 (amended): whenever a SCHEDULED or CONFIRMED appointment of doctor D at T
\* exists, every createAppointment for (D, T) that names an existing patient,
\* by an ADMIN or by D, is refused with the conflict error, returns no
\* appointment and leaves the table as it was.
C3_ConflictRefused ==
    [][\A user \in BookingCallers : \A patient_id \in BookingPatientArgs :
       \A a \in appointments : \A kwargs \in BookingCreateKwargs :
          ( /\ response'.caller = user
            /\ a.status \in BookedStatuses
            /\ AdminOrThatDoctor(user, a.doctor)
            /\ Get(patients, patient_id) # None
            /\ CreateAppointment(1, user, patient_id, a.doctor, a.appointment_date, kwargs) )
          => (RefusedAsBooked(response') /\ appointments' = appointments)]_vars

\* a create was refused as booked while the slot it named is still held
C3_Witness ==
    /\ RefusedAsBooked(response)
    /\ \E a \in appointments : a.status \in BookedStatuses
    /\ Cardinality(appointments) < MaxAppts

\* C4 as stated: when the only appointment of doctor D at T is CANCELLED, a
\* createAppointment for (D, T) by an authorized caller naming an existing
\* patient and doctor returns success=true and stores a new appointment at (D, T).
C4_RebookCancelled ==
    [][\A user \in BookingCallers : \A patient_id \in BookingPatientArgs :
       \A a \in appointments : \A kwargs \in BookingCreateKwargs :
          ( /\ \A b \in appointments :
                   (b.doctor = a.doctor /\ b.appointment_date = a.appointment_date)
                       => b.status = "CANCELLED"
            /\ response'.caller = user
            /\ AdminOrThatDoctor(user, a.doctor)
            /\ Get(patients, patient_id) # None
            /\ CreateAppointment(1, user, patient_id, a.doctor, a.appointment_date, kwargs) )
          => ( /\ response'.success = TRUE
               /\ \E n \in appointments' \ appointments :
                      n.doctor = a.doctor /\ n.appointment_date = a.appointment_date )]_vars

----------------------------------------------------------------------------
(* SpecUpdate: two booked appointments, patient 1 with doctor 1 and        *)
(* patient 2 with doctor 2, read by id and updated by the admin, by doctor *)
(* 1 and by patient 1, each owning one of the two and not the other.       *)

FixtureAppointments ==
    {[id |-> 1, patient |-> 1, doctor |-> 1, appointment_date |-> 1,
      status |-> StatusDefault, notes |-> None, reason_for_visit |-> None,
      duration_minutes |-> DurationDefault],
     [id |-> 2, patient |-> 2, doctor |-> 2, appointment_date |-> 1,
      status |-> StatusDefault, notes |-> None, reason_for_visit |-> None,
      duration_minutes |-> DurationDefault]}

InitUpdate ==
    /\ users = FixtureUsers
    /\ doctors = FixtureDoctors
    /\ patients = FixturePatients
    /\ appointments = FixtureAppointments
    /\ medical_records = {}
    /\ pending = [s \in Sessions |-> Idle]
    /\ response = [op |-> "none"]

UpdateCallers == {1, 2, 4}

UpdateKwargs ==
    {[notes |-> Some(T_Xr), status |-> Some("COMPLETED")],
     [notes |-> None, status |-> Some("CANCELLED")],
     [appointment_date |-> Some(1)],
     [appointment_date |-> Some(MaxTime), notes |-> Some(T_Fl),
      reason_for_visit |-> Some(T_Xr), duration_minutes |-> Some(45)]}

NextUpdate ==
    \/ \E user \in UpdateCallers : \E id \in IdArgs(appointments) :
       \E kwargs \in UpdateKwargs :
           UpdateAppointment(1, user, id, kwargs)
    \/ \E user \in UpdateCallers : \E id \in IdArgs(appointments) :
           AppointmentById(1, user, id)

SpecUpdate == InitUpdate /\ [][NextUpdate]_vars

----------------------------------------------------------------------------
(* Claims about a PATIENT caller and appointments. *)

Denied(r, op) ==
    /\ r.op = op
    /\ r.success = FALSE
    /\ r.errors = <<"Permission denied">>
    /\ r.entity = None

\* C5: for a PATIENT caller and an appointment whose patient is not the
\* caller, appointmentById returns null, and updateAppointment with any
\* payload returns success=false, "Permission denied" and no appointment and
\* leaves every stored appointment as it was.
C5_ForeignAppointmentClosed ==
    [][\A user \in UpdateCallers : \A a \in appointments :
          ( /\ response'.caller = user
            /\ is_patient(user)
            /\ ~PatientUserIs(a, user) ) =>
             /\ AppointmentById(1, user, a.id) => response'.entity = None
             /\ \A kwargs \in UpdateKwargs :
                    UpdateAppointment(1, user, a.id, kwargs) =>
                        /\ Denied(response', "updateAppointment")
                        /\ appointments' = appointments]_vars

\* a patient was just denied the update of an appointment that is another's
C5_Witness ==
    /\ Denied(response, "updateAppointment")
    /\ is_patient(response.caller)
    /\ \E a \in appointments : ~PatientUserIs(a, response.caller)
    /\ \E a \in appointments : a.notes # None

\* C6: a PATIENT caller updating an appointment whose patient is the caller
\* gets success=true with any payload; the stored notes is the supplied notes
\* when a non-null one is supplied and the old notes otherwise; every other
\* column of that row, and every other row, is unchanged.
C6_PatientWritesNotesOnly ==
    [][\A user \in UpdateCallers : \A a \in appointments :
       \A kwargs \in UpdateKwargs :
          ( /\ response'.caller = user
            /\ is_patient(user)
            /\ PatientUserIs(a, user)
            /\ UpdateAppointment(1, user, a.id, kwargs) )
          => /\ response'.success = TRUE
             /\ response'.errors = << >>
             /\ appointments' = (appointments \ {a}) \cup
                    {[a EXCEPT !.notes = IF Supplied(kwargs, "notes")
                                         THEN kwargs.notes ELSE a.notes]}
             /\ response'.entity \subseteq appointments']_vars

\* a patient's update that carried a status went through, and the status of
\* the patient's appointment is still the one it was booked with
C6_Witness ==
    /\ response.op = "updateAppointment"
    /\ is_patient(response.caller)
    /\ response.success = TRUE
    /\ \E a \in response.entity :
           /\ a.notes = Some(T_Xr)
           /\ a.status = StatusDefault
           /\ a \in appointments

----------------------------------------------------------------------------
(* SpecConc: two sessions whose createAppointment and updateAppointment    *)
(* calls interleave between their database statements.  The calls are the  *)
(* admin's, for doctor 1, so that every one reaches the table.             *)

NextConc ==
    LET
        ConcCallers == {1}
        ConcPatientArgs == {1}
        ConcDoctorArgs == {1}
        ConcUpdateKwargs ==
            {[status |-> Some("CANCELLED")], [status |-> Some("CONFIRMED")]}
            \cup {[appointment_date |-> Some(t)] : t \in Timestamps}
    IN
        \/ \E s \in Sessions : \E user \in ConcCallers :
           \E patient_id \in ConcPatientArgs : \E doctor_id \in ConcDoctorArgs :
           \E appointment_date \in Timestamps :
               /\ Cardinality(appointments) < MaxAppts
               /\ CreateAppointmentBegin(s, user, patient_id, doctor_id, appointment_date, << >>)
        \/ \E s \in Sessions : CreateAppointmentEnd(s)
        \/ \E s \in Sessions : \E user \in ConcCallers :
           \E id \in IdArgs(appointments) : \E kwargs \in ConcUpdateKwargs :
               UpdateAppointmentBegin(s, user, id, kwargs)
        \/ \E s \in Sessions : UpdateAppointmentEnd(s)

SpecConc == Init /\ [][NextConc]_vars

\* C1: in every state reached by interleaved createAppointment and
\* updateAppointment calls, no two stored appointments whose status is
\* SCHEDULED or CONFIRMED have the same (doctor, appointment_date).
C1_NoDoubleBooking ==
    \A a \in appointments : \A b \in appointments :
        ( /\ a.id # b.id
          /\ a.status \in BookedStatuses
          /\ b.status \in BookedStatuses )
        => ~(a.doctor = b.doctor /\ a.appointment_date = b.appointment_date)

\* two requests for the same slot both passed the time-slot check; one has
\* inserted its row and the other just got the table's refusal, and no row
\* is cancelled, so that the refusal can only come from the race
C1_Witness ==
    /\ response.op = "createAppointment"
    /\ response.errors = IntegrityErrorUnique
    /\ \A s \in Sessions : pending[s] = Idle
    /\ appointments # {}
    /\ \A a \in appointments : a.status \in BookedStatuses

----------------------------------------------------------------------------------------------------------------------------------------
(* SpecRace: createAppointment requests for a slot that the time-slot      *)
(* check finds free, by the admin or by the doctors, at most one per       *)
(* session at a time and all in flight ones for the same slot.  Between    *)
(* races the admin may cancel a stored appointment.                        *)

SlotRows(doctor_id, appointment_date) ==
    {a \in appointments :
        a.doctor = doctor_id /\ a.appointment_date = appointment_date}

BookedRows(doctor_id, appointment_date) ==
    {a \in SlotRows(doctor_id, appointment_date) : a.status \in BookedStatuses}

NextRace ==
    LET
        RaceCallers == {1, 2, 3}
        RacePatientArgs == {1, 2}
    IN
        \/ \E s \in Sessions : \E user \in RaceCallers :
           \E patient_id \in RacePatientArgs : \E d \in doctors :
           \E appointment_date \in Timestamps :
               /\ Cardinality(appointments) < MaxAppts
               /\ BookedRows(d.id, appointment_date) = {}
               /\ \A o \in Sessions :
                      pending[o] # Idle =>
                          /\ pending[o].instance.doctor = d.id
                          /\ pending[o].instance.appointment_date = appointment_date
               /\ CreateAppointmentBegin(s, user, patient_id, d.id, appointment_date, << >>)
        \/ \E s \in Sessions : CreateAppointmentEnd(s)
        \/ \E s \in Sessions : \E id \in IdArgs(appointments) :
               /\ \A o \in Sessions : pending[o] = Idle
               /\ UpdateAppointment(s, 1, id, [status |-> Some("CANCELLED")])

SpecRace == Init /\ [][NextRace]_vars

\* the uniform failure shape
FailureShape(r) ==
    /\ r.entity = None
    /\ r.success = FALSE
    /\ r.errors # << >>

\* the request stored its appointment and returned it with success=true
Persisted(r, instance) ==
    /\ r.success = TRUE
    /\ r.errors = << >>
    /\ Cardinality(r.entity) = 1
    /\ appointments' = appointments \cup r.entity
    /\ \A a \in r.entity :
           /\ a.doctor = instance.doctor
           /\ a.appointment_date = instance.appointment_date
           /\ a.patient = instance.patient

\* C2: of the createAppointment requests that passed the time-slot check for
\* the same free slot (no SCHEDULED or CONFIRMED appointment holds it), the
\* one whose INSERT runs first stores its appointment and returns
\* success=true, and every later one returns (null, false, non-empty errors)
\* and stores nothing.
C2_OneWinner ==
    [][\A s \in Sessions :
          (pending[s].pc = "insert" /\ CreateAppointmentEnd(s)) =>
             LET mine == pending[s].instance
             IN  /\ response'.op = "createAppointment"
                 /\ IF BookedRows(mine.doctor, mine.appointment_date) = {}
                    THEN Persisted(response', mine)
                    ELSE FailureShape(response') /\ appointments' = appointments]_vars

\* C2 for the slots that hold no appointment of any status: the first INSERT
\* wins and every later one gets the uniform failure shape.
C2_OneWinnerNoRow ==
    [][\A s \in Sessions :
          (pending[s].pc = "insert" /\ CreateAppointmentEnd(s)) =>
             LET mine == pending[s].instance
             IN  /\ response'.op = "createAppointment"
                 /\ SlotRows(mine.doctor, mine.appointment_date) = {}
                        => Persisted(response', mine)
                 /\ BookedRows(mine.doctor, mine.appointment_date) # {}
                        => FailureShape(response') /\ appointments' = appointments
                 /\ FailureShape(response') \/ response'.success = TRUE]_vars

\* both sessions were in flight for a slot that held no row; the second
\* INSERT has just been refused and the slot holds the winner's row
C2_Witness ==
    /\ response.op = "createAppointment"
    /\ FailureShape(response)
    /\ response.errors = IntegrityErrorUnique
    /\ \A s \in Sessions : pending[s] = Idle
    /\ Cardinality(appointments) = 1
    /\ \A a \in appointments : a.status \in BookedStatuses

----------------------------------------------------------------------------
(* SpecQuery: the admin fills and cancels appointments of both doctors     *)
(* and both patients; the two doctors run the six appointment queries      *)
(* with every combination of filter arguments.                             *)

OptionalIds(rows) == {None} \cup {Some(r.id) : r \in rows}

OptionalDates == {None} \cup {Some(d) : d \in Dates}

NextQuery ==
    LET
        QueryCallers == {2, 3}
        \* what the admin books: a bare appointment of patient 1 at the first
        \* timestamp or one of patient 2 with notes at the last
        QueryCreateInputs ==
            {[patient_id |-> 1, appointment_date |-> 1, kwargs |-> << >>],
             [patient_id |-> 2, appointment_date |-> MaxTime,
              kwargs |-> [notes |-> Some(T_Xr)]]}
        SearchArgs == {None, Some(<< >>), Some(<<"x">>)}
        StatusArgs == {None, Some("CANCELLED")}
    IN
        \/ \E d \in doctors : \E in \in QueryCreateInputs :
               /\ Cardinality(appointments) < MaxAppts
               /\ CreateAppointment(1, 1, in.patient_id, d.id, in.appointment_date,
                                    in.kwargs)
        \/ \E id \in IdArgs(appointments) :
               UpdateAppointment(1, 1, id, [status |-> Some("CANCELLED")])
        \/ \E user \in QueryCallers : AllAppointments(1, user)
        \/ \E user \in QueryCallers : \E id \in IdArgs(appointments) :
               AppointmentById(1, user, id)
        \/ \E user \in QueryCallers : \E date \in Dates :
               AppointmentsByDate(1, user, date)
        \/ \E user \in QueryCallers : \E doctor_id \in OptionalIds(doctors) :
           \E date \in OptionalDates :
               DoctorAppointments(1, user, doctor_id, date)
        \/ \E user \in QueryCallers : \E patient_id \in OptionalIds(patients) :
               PatientAppointments(1, user, patient_id)
        \/ \E user \in QueryCallers : \E search \in SearchArgs :
           \E status \in StatusArgs : \E start_date \in {None, Some(1)} :
           \E end_date \in {None, Some(0)} :
               SearchAppointments(1, user, search, status, start_date, end_date)

SpecQuery == Init /\ [][NextQuery]_vars

OwnAppointments(user) == {a \in appointments : DoctorUserIs(a, user)}

AppointmentQueries ==
    {"allAppointments", "appointmentById", "appointmentsByDate",
     "doctorAppointments", "patientAppointments", "searchAppointments"}

Returned(r) == IF "entity" \in DOMAIN r THEN r.entity ELSE r.rows

\* C7: whatever the filter arguments, each of the six appointment queries
\* run by a DOCTOR returns only stored appointments whose doctor is the
\* caller, and allAppointments returns all of them.
C7_DoctorSeesOwnOnly ==
    [][(response'.op \in AppointmentQueries /\ is_doctor(response'.caller)) =>
          /\ Returned(response') \subseteq OwnAppointments(response'.caller)
          /\ response'.op = "allAppointments" =>
                 response'.rows = OwnAppointments(response'.caller)]_vars

\* doctor 1 (user 2) asked doctorAppointments for the other doctor's id
\* while that doctor has an appointment stored, and doctor 1 has one too
C7_Witness ==
    /\ response.op = "doctorAppointments"
    /\ response.caller = 2
    /\ response.args.doctor_id = Some(2)
    /\ response.rows = {}
    /\ OwnAppointments(2) # {}
    /\ OwnAppointments(3) # {}

----------------------------------------------------------------------------
(* SpecRecords: the two doctors and a patient create, update and read      *)
(* medical records.                                                        *)

MaxRecords == 2

NextRecords ==
    LET
        RecordCallers == {2, 3, 4}
        \* a bare record for patient 1 and one with a follow-up for patient 2,
        \* an explicit null for the follow-up, and a patient that does not exist
        RecordCreateInputs ==
            {[patient_id |-> 1, kwargs |-> << >>],
             [patient_id |-> 2, kwargs |-> [follow_up_required |-> Some(TRUE)]],
             [patient_id |-> 1, kwargs |-> [follow_up_required |-> None]],
             [patient_id |-> NextId(patients), kwargs |-> << >>]}
        RecordUpdateKwargs ==
            {[diagnosis |-> Some(T_Xr), symptoms |-> None,
              follow_up_required |-> Some(TRUE)]}
        RecordSearchArgs == {None, Some(<<"x">>)}
        FollowUpArgs == {None, Some(FALSE)}
    IN
        \/ \E user \in RecordCallers : \E in \in RecordCreateInputs :
           \E d \in doctors :
               /\ Cardinality(medical_records) < MaxRecords
               /\ CreateMedicalRecord(1, user, in.patient_id, d.id, 1, T_Fl, T_Fl,
                                      in.kwargs)
        \/ \E user \in RecordCallers : \E id \in IdArgs(medical_records) :
           \E kwargs \in RecordUpdateKwargs :
               UpdateMedicalRecord(1, user, id, kwargs)
        \/ \E user \in RecordCallers : AllMedicalRecords(1, user)
        \/ \E user \in RecordCallers : \E id \in IdArgs(medical_records) :
               MedicalRecordById(1, user, id)
        \/ \E user \in RecordCallers : \E patient_id \in OptionalIds(patients) :
               PatientMedicalRecords(1, user, patient_id)
        \/ \E user \in RecordCallers : \E doctor_id \in OptionalIds(doctors) :
               DoctorMedicalRecords(1, user, doctor_id)
        \/ \E user \in RecordCallers : \E search \in RecordSearchArgs :
           \E end_date \in {None, Some(0)} : \E follow_up_required \in FollowUpArgs :
               SearchMedicalRecords(1, user, search, None, end_date, follow_up_required)

SpecRecords == Init /\ [][NextRecords]_vars

MedicalRecordQueries ==
    {"allMedicalRecords", "medicalRecordById", "patientMedicalRecords",
     "doctorMedicalRecords", "searchMedicalRecords"}

MedicalRecordMutations == {"createMedicalRecord", "updateMedicalRecord"}

----------------------------------------------------------------------------
(* SpecPatients: the admin books and cancels appointments, the doctors     *)
(* write medical records, and a doctor and a patient read and update       *)
(* patient profiles.                                                       *)

PatientCallers == {2, 4}

PatientUpdateKwargs == {[address |-> Some(T_Xr), blood_type |-> None]}

MrnArgs == {p.medical_record_number : p \in patients} \cup {T_Xr}

NextPatients ==
    LET
        PatientSearchArgs == {None, Some(<< >>), Some(<<"m", "a">>)}
        BloodTypeArgs == {None, Some(T_Xr)}
    IN
        \/ \E p \in patients : \E d \in doctors :
               /\ Cardinality(appointments) < MaxAppts
               /\ CreateAppointment(1, 1, p.id, d.id, 1, << >>)
        \/ \E id \in IdArgs(appointments) :
               UpdateAppointment(1, 1, id, [status |-> Some("CANCELLED")])
        \/ \E p \in patients : \E d \in doctors :
               /\ medical_records = {}
               /\ CreateMedicalRecord(1, d.user, p.id, d.id, 1, T_Fl, T_Fl, << >>)
        \/ \E user \in PatientCallers : AllPatients(1, user)
        \/ \E user \in PatientCallers : \E id \in IdArgs(patients) :
               PatientById(1, user, id)
        \/ \E user \in PatientCallers : \E mrn \in MrnArgs : PatientByMrn(1, user, mrn)
        \/ \E user \in PatientCallers : \E search \in PatientSearchArgs :
           \E blood_type \in BloodTypeArgs :
               SearchPatients(1, user, search, blood_type)
        \/ \E user \in PatientCallers : \E id \in IdArgs(patients) :
           \E kwargs \in PatientUpdateKwargs :
               UpdatePatient(1, user, id, kwargs)

SpecPatients == Init /\ [][NextPatients]_vars

\* the patients the table of the specification opens to a caller: to a
\* DOCTOR those with an appointment of any status with the caller's doctor
\* profile, to a PATIENT the caller's own profile
Accessible(user) ==
    IF is_doctor(user)
    THEN {p \in patients :
            \E a \in appointments : \E d \in doctors :
                a.patient = p.id /\ a.doctor = d.id /\ d.user = user}
    ELSE IF is_patient(user) THEN {p \in patients : p.user = user}
    ELSE {}

\* C9: for a DOCTOR or PATIENT caller, allPatients and an unfiltered
\* searchPatients return exactly the accessible patients, a filtered
\* searchPatients only accessible ones, patientById and patientByMrn return
\* the named patient exactly when it is accessible, and updatePatient
\* succeeds exactly on an accessible patient and otherwise changes nothing.
C9_PatientAccess ==
    [][\A user \in PatientCallers :
          response'.caller = user =>
            /\ response'.op = "allPatients" =>
                   response'.rows = Accessible(user)
            /\ response'.op = "searchPatients" =>
                   /\ response'.rows \subseteq Accessible(user)
                   /\ (~Truthy(response'.args.search)
                       /\ ~Truthy(response'.args.blood_type)) =>
                          response'.rows = Accessible(user)
            /\ response'.op = "patientById" =>
                   \A id \in IdArgs(patients) :
                       PatientById(1, user, id) =>
                           response'.entity = {p \in Accessible(user) : p.id = id}
            /\ response'.op = "patientByMrn" =>
                   \A mrn \in MrnArgs :
                       PatientByMrn(1, user, mrn) =>
                           response'.entity =
                               {p \in Accessible(user) : p.medical_record_number = mrn}
            /\ response'.op = "updatePatient" =>
                   \A id \in IdArgs(patients) : \A kwargs \in PatientUpdateKwargs :
                       UpdatePatient(1, user, id, kwargs) =>
                           /\ response'.success <=> (\E p \in Accessible(user) : p.id = id)
                           /\ ~response'.success => patients' = patients
                           /\ \A p \in patients : p.id # id => p \in patients']_vars

\* doctor 1 (user 2) wrote a medical record for patient 2 and has only a
\* cancelled appointment, with patient 1; allPatients returned patient 1 alone
C9_Witness ==
    /\ response.op = "allPatients"
    /\ response.caller = 2
    /\ response.rows \subseteq patients
    /\ {p.id : p \in response.rows} = {1}
    /\ \E m \in medical_records : m.patient = 2 /\ DoctorUserIs(m, 2)
    /\ \A a \in appointments :
           DoctorUserIs(a, 2) => a.patient = 1 /\ a.status = "CANCELLED"

----------------------------------------------------------------------------
(* SpecProfiles: besides the fixture's users there are a user with role    *)
(* DOCTOR and no profile yet and a user whose role is none of the three.   *)
(* Every one of them calls createDoctor, createPatient and updateDoctor.   *)

ProfileUsers ==
    FixtureUsers @@
    (6 :> [role |-> "DOCTOR", username |-> <<"u", "6">>, email |-> <<"e", "6">>,
          first_name |-> T_Fl, last_name |-> T_Fl]) @@
    (7 :> [role |-> "NURSE", username |-> <<"u", "7">>, email |-> <<"e", "7">>,
          first_name |-> T_Xr, last_name |-> T_Xr])

InitProfiles ==
    /\ users = ProfileUsers
    /\ doctors = FixtureDoctors
    /\ patients = FixturePatients
    /\ appointments = {}
    /\ medical_records = {}
    /\ pending = [s \in Sessions |-> Idle]
    /\ response = [op |-> "none"]

NextProfiles ==
    LET
        ProfileCallers == {1, 2, 4, 6, 7}
        \* a user without the profile, a user who has it, and an id of no user
        UserIdArgs == {2, 4, 6, 8}
        LicenseArgs == {<<"D", "1">>, <<"D", "9">>}
        ProfileMrnArgs == {<<"M", "1">>, <<"M", "9">>}
        DoctorUpdateKwargs == {[specialization |-> Some(T_Xr), office_location |-> None]}
    IN
        \/ \E user \in ProfileCallers : \E user_id \in UserIdArgs :
           \E license_number \in LicenseArgs :
               CreateDoctor(1, user, user_id, T_Fl, license_number, << >>)
        \/ \E user \in ProfileCallers : \E user_id \in UserIdArgs :
           \E mrn \in ProfileMrnArgs :
               CreatePatient(1, user, user_id, mrn, << >>)
        \/ \E user \in ProfileCallers : \E id \in IdArgs(doctors) :
           \E kwargs \in DoctorUpdateKwargs :
               UpdateDoctor(1, user, id, kwargs)

SpecProfiles == InitProfiles /\ [][NextProfiles]_vars

C20_UniqueNumbers ==
    /\ [](/\ \A d, e \in doctors : d.license_number = e.license_number => d = e
          /\ \A p, q \in patients :
                 p.medical_record_number = q.medical_record_number => p = q)
    /\ [][\A user_id \in {2, 4, 6, 8} :
            /\ \A d \in doctors :
                   CreateDoctor(1, 1, user_id, T_Fl, d.license_number, << >>)
                   => /\ FailureShape(response')
                      /\ Len(response'.errors) = 1
                      /\ doctors' = doctors
            /\ \A p \in patients :
                   CreatePatient(1, 1, user_id, p.medical_record_number, << >>)
                   => /\ FailureShape(response')
                      /\ Len(response'.errors) = 1
                      /\ patients' = patients]_vars

\* the admin, who has stored a third doctor under a new license number, has
\* just been refused a doctor profile under a license number in use
C20_Witness ==
    /\ response.op = "createDoctor"
    /\ response.caller = 1
    /\ response.errors = <<"UNIQUE constraint failed: doctors.license_number">>
    /\ response.entity = None
    /\ Cardinality(doctors) = 3

----------------------------------------------------------------------------
(* SpecCreate: the admin, the two doctors, a patient and a user whose role *)
(* is none of the three call createAppointment and createMedicalRecord     *)
(* with own, foreign and missing doctor ids.                               *)

NextCreate ==
    LET CreateCallers == {1, 2, 3, 4, 7}
        CreatePatientArgs == {1, NextId(patients)}
    IN
        \/ \E user \in CreateCallers : \E patient_id \in CreatePatientArgs :
           \E doctor_id \in IdArgs(doctors) : \E appointment_date \in Timestamps :
               /\ Cardinality(appointments) < MaxAppts
               /\ CreateAppointment(1, user, patient_id, doctor_id,
                                    appointment_date, << >>)
        \/ \E user \in CreateCallers : \E patient_id \in CreatePatientArgs :
           \E doctor_id \in IdArgs(doctors) :
               /\ Cardinality(medical_records) < MaxRecords
               /\ CreateMedicalRecord(1, user, patient_id, doctor_id, 1, T_Fl, T_Fl,
                                      << >>)

SpecCreate == InitProfiles /\ [][NextCreate]_vars

CreateMutations == {"createAppointment", "createMedicalRecord"}

----------------------------------------------------------------------------
(* SpecUsers: the user queries, createUser and the doctor directory called *)
(* by every kind of caller, and the rest of the schema called by the       *)
(* callers that hold none of the three roles: a request without a token,   *)
(* and a user stored by createUser with a role string of its own.          *)

\* most users rows createUser adds to the fixture's
MaxUsers == 2

InitUsers ==
    /\ users = FixtureUsers
    /\ doctors = FixtureDoctors
    /\ patients = FixturePatients
    /\ appointments = FixtureAppointments
    /\ medical_records =
           {[id |-> 1, patient |-> 1, doctor |-> 1, visit_date |-> 1,
             diagnosis |-> T_Fl, treatment_notes |-> T_Fl, symptoms |-> None,
             follow_up_required |-> FollowUpDefault]}
    /\ pending = [s \in Sessions |-> Idle]
    /\ response = [op |-> "none"]

NextUsers ==
    LET
        UserCallers == (DOMAIN users \cap {1, 2, 4, 6, 7}) \cup {AnonymousUser}
        Outsiders ==
            {u \in UserCallers : u = AnonymousUser \/ users[u].role \notin Role}
        UsernameArgs == {<<"u", "1">>, <<"n", "1">>, <<"n", "2">>}
        CreateUserKwargs == {<< >>, [role |-> Some("NURSE")], [role |-> None]}
        UserIdArgs == DOMAIN users \cup {9}
        DirectorySearchArgs == {None, Some(<<"b", "o">>), Some(<<"2">>)}
        SpecializationArgs == {None, Some(<<"c", "a">>)}
        Resolve(r) ==
            /\ pending[1] = Idle
            /\ Answer(1, r)
            /\ UNCHANGED <<tables, pending>>
    IN
        \/ \E caller \in {AnonymousUser, 4} : \E username \in UsernameArgs :
           \E kwargs \in CreateUserKwargs :
               /\ Cardinality(DOMAIN users) < Cardinality(DOMAIN FixtureUsers) + MaxUsers
               /\ CreateUser(1, caller, username, <<"e", "9">>, kwargs)
        \/ \E user \in UserCallers :
               login_required(1, "me", user, Resolve(Found("me", user, resolve_me(user))))
        \/ \E user \in UserCallers :
               login_required(1, "allUsers", user,
                   Resolve(Listed("allUsers", user, << >>, resolve_all_users(user))))
        \/ \E user \in UserCallers : \E id \in UserIdArgs :
               Resolve(Found("userById", user, resolve_user_by_id(id)))
        \/ \E user \in UserCallers :
               Resolve(Listed("allDoctors", user, << >>, resolve_all_doctors))
        \/ \E user \in UserCallers : \E id \in IdArgs(doctors) :
               Resolve(Listed("doctorById", user, [id |-> id],
                              resolve_doctor_by_id(id)))
        \/ \E user \in UserCallers : \E d \in doctors :
           \E license_number \in {d.license_number, T_Xr} :
               Resolve(Listed("doctorByLicense", user,
                              [license_number |-> license_number],
                              resolve_doctor_by_license(license_number)))
        \/ \E user \in UserCallers : \E search \in DirectorySearchArgs :
           \E specialization \in SpecializationArgs :
               Resolve(Listed("searchDoctors", user,
                              [search |-> search, specialization |-> specialization],
                              resolve_search_doctors(search, specialization)))
        \/ \E user \in Outsiders :
               login_required(1, "allAppointments", user, AllAppointments(1, user))
        \/ \E user \in Outsiders : \E id \in IdArgs(appointments) :
               login_required(1, "appointmentById", user, AppointmentById(1, user, id))
        \/ \E user \in Outsiders :
               login_required(1, "allPatients", user, AllPatients(1, user))
        \/ \E user \in Outsiders : \E id \in IdArgs(patients) :
               login_required(1, "patientById", user, PatientById(1, user, id))
        \/ \E user \in Outsiders :
               login_required(1, "allMedicalRecords", user, AllMedicalRecords(1, user))
        \/ \E user \in Outsiders : \E id \in IdArgs(medical_records) :
               login_required(1, "medicalRecordById", user,
                              MedicalRecordById(1, user, id))
        \/ \E user \in Outsiders : \E t \in Timestamps :
               login_required(1, "createAppointment", user,
                              CreateAppointment(1, user, 1, 1, t, << >>))
        \/ \E user \in Outsiders :
               login_required(1, "createMedicalRecord", user,
                   CreateMedicalRecord(1, user, 1, 1, 1, T_Fl, T_Fl, << >>))
        \/ \E user \in Outsiders : \E user_id \in {4, 9} :
               login_required(1, "createDoctor", user,
                              CreateDoctor(1, user, user_id, T_Fl, T_Xr, << >>))
        \/ \E user \in Outsiders : \E user_id \in {2, 9} :
               login_required(1, "createPatient", user,
                              CreatePatient(1, user, user_id, T_Xr, << >>))
        \/ \E user \in Outsiders : \E id \in IdArgs(appointments) :
               login_required(1, "updateAppointment", user,
                   UpdateAppointment(1, user, id, [notes |-> Some(T_Xr)]))
        \/ \E user \in Outsiders : \E id \in IdArgs(medical_records) :
               login_required(1, "updateMedicalRecord", user,
                   UpdateMedicalRecord(1, user, id, [diagnosis |-> Some(T_Xr)]))
        \/ \E user \in Outsiders : \E id \in IdArgs(patients) :
               login_required(1, "updatePatient", user,
                   UpdatePatient(1, user, id, [address |-> Some(T_Xr)]))
        \/ \E user \in Outsiders : \E id \in IdArgs(doctors) :
               login_required(1, "updateDoctor", user,
                   UpdateDoctor(1, user, id, [specialization |-> Some(T_Xr)]))

SpecUsers == InitUsers /\ [][NextUsers]_vars

UserQueries == {"me", "allUsers", "userById"}

\* the records a response carries: none when the field raised
Records(r) == IF "raised" \in DOMAIN r THEN {} ELSE Returned(r)

\* C12: me, allUsers and userById return to a DOCTOR or PATIENT caller no
\* User other than the caller.
C12_OwnUserOnly ==
    [][LET r == response'
       IN  (/\ r.op \in UserQueries
            /\ r.caller # AnonymousUser
            /\ is_doctor(r.caller) \/ is_patient(r.caller))
           => Records(r) \subseteq {r.caller}]_vars

\* PATIENT user 4 asked userById for the admin's id and was given the
\* admin's User
C12_Witness ==
    /\ response.op = "userById"
    /\ response.caller = 4
    /\ response.entity = Some(1)
    /\ is_patient(4) /\ is_admin(1)

DirectoryQueries == {"allDoctors", "doctorById", "doctorByLicense", "searchDoctors"}

\* a caller without a token, or a user whose role is none of the three
Outsider(caller) == caller = AnonymousUser \/ users[caller].role \notin Role

\* the doctors that match the arguments of a directory query
Matching(r) ==
    IF r.op = "allDoctors" THEN doctors
    ELSE IF r.op = "doctorById" THEN {d \in doctors : d.id = r.args.id}
    ELSE IF r.op = "doctorByLicense"
    THEN {d \in doctors : d.license_number = r.args.license_number}
    ELSE resolve_search_doctors(r.args.search, r.args.specialization)

\* C13: a caller without a token, and a caller whose role is none of
\* PATIENT, DOCTOR, ADMIN, gets no record and changes no table by any query
\* or mutation, except that the four doctor directory reads return every
\* matching doctor.
C13_OutsidersDenied ==
    [][LET r == response'
       IN  (r.op # "none" /\ Outsider(r.caller)) =>
             IF r.op \in DirectoryQueries
             THEN r.rows = Matching(r)
             ELSE Records(r) = {} /\ UNCHANGED tables]_vars

\* the part of C13 about the directory: every caller is answered with
\* every matching doctor
C13_DirectoryPublic ==
    [][response'.op \in DirectoryQueries => response'.rows = Matching(response')]_vars

\* the part of C13 about the operations under @login_required: a caller
\* without a token gets the raised permission error, a user of no role gets
\* no record, and neither changes a table
C13_LoginRequiredDenied ==
    [][LET r == response'
       IN  (/\ r.op \notin DirectoryQueries \cup {"none", "me", "userById", "createUser"}
            /\ Outsider(r.caller))
           => Records(r) = {} /\ UNCHANGED tables]_vars

\* a request without a token stored a user through createUser, and that
\* user's role is none of the three
C13_Witness ==
    /\ response.op = "createUser"
    /\ response.caller = AnonymousUser
    /\ response.success
    /\ \E id \in response.entity : users[id].role \notin Role

\* C19: every stored user has a role from {PATIENT, DOCTOR, ADMIN}, so that
\* exactly one of is_patient, is_doctor, is_admin is true of it.
C19_OneRole ==
    \A u \in DOMAIN users :
        /\ users[u].role \in Role
        /\ Cardinality({p \in {"is_patient", "is_doctor", "is_admin"} :
               \/ p = "is_patient" /\ is_patient(u)
               \/ p = "is_doctor" /\ is_doctor(u)
               \/ p = "is_admin" /\ is_admin(u)}) = 1

\* createUser(role: "NURSE") succeeded and the user it stored is neither
\* patient nor doctor nor admin
C19_Witness ==
    /\ response.op = "createUser"
    /\ response.success
    /\ \E id \in response.entity :
           /\ users[id].role = "NURSE"
           /\ ~(is_patient(id) \/ is_doctor(id) \/ is_admin(id))
    /\ \E id \in DOMAIN users \ DOMAIN FixtureUsers : is_patient(id)

----------------------------------------------------------------------------
(* SpecRead: the list and get-by-id queries of appointments, patients and  *)
(* medical records, asked by the admin, a doctor, a patient, and by users  *)
(* that createUser stored as a DOCTOR without a profile and with a role of *)
(* its own, while the admin adds medical records.                          *)

NextRead ==
    LET
        ReadCallers == DOMAIN users \cap {1, 2, 4, 6, 7}
        NewUsers == {[username |-> <<"n", "1">>, kwargs |-> [role |-> Some("NURSE")]],
                     [username |-> <<"n", "2">>, kwargs |-> [role |-> Some("DOCTOR")]]}
        Resolve(r) ==
            /\ pending[1] = Idle
            /\ Answer(1, r)
            /\ UNCHANGED <<tables, pending>>
    IN
        \/ \E in \in NewUsers :
               /\ Cardinality(DOMAIN users) < Cardinality(DOMAIN FixtureUsers) + MaxUsers
               /\ CreateUser(1, AnonymousUser, in.username, <<"e", "9">>, in.kwargs)
        \/ \E p \in patients : \E d \in doctors :
               /\ Cardinality(medical_records) < MaxRecords
               /\ CreateMedicalRecord(1, 1, p.id, d.id, 1, T_Fl, T_Fl, << >>)
        \/ \E user \in ReadCallers : AllAppointments(1, user)
        \/ \E user \in ReadCallers : AllPatients(1, user)
        \/ \E user \in ReadCallers : AllMedicalRecords(1, user)
        \/ \E user \in ReadCallers : \E id \in IdArgs(appointments) :
               Resolve(Listed("appointmentById", user, [id |-> id],
                              resolve_appointment_by_id(user, id)))
        \/ \E user \in ReadCallers : \E id \in IdArgs(patients) :
               Resolve(Listed("patientById", user, [id |-> id],
                              resolve_patient_by_id(user, id)))
        \/ \E user \in ReadCallers : \E id \in IdArgs(medical_records) :
               Resolve(Listed("medicalRecordById", user, [id |-> id],
                              resolve_medical_record_by_id(user, id)))

SpecRead == InitUsers /\ [][NextRead]_vars

\* the caller's list query of the entity a get-by-id query is about
ListFor(op, caller) ==
    IF op = "appointmentById" THEN resolve_all_appointments(caller)
    ELSE IF op = "patientById" THEN resolve_all_patients(caller)
    ELSE resolve_all_medical_records(caller)

----------------------------------------------------------------------------
(* SpecWrite: every create and update mutation of the schema, called by    *)
(* the admin, both doctors, a patient and a user of no role, with stored   *)
(* and missing ids, so that each return of each mutate is taken.           *)

AppointmentUpdate == [status |-> Some("CANCELLED")]

MedicalRecordUpdate == [diagnosis |-> Some(T_Xr)]

PatientUpdate == [address |-> Some(T_Xr)]

DoctorUpdate == [specialization |-> Some(T_Xr)]

NextWrite ==
    LET
        WriteCallers == {1, 2, 3, 4, 7}
        NewUsers == {[username |-> <<"u", "1">>, kwargs |-> << >>],
                     [username |-> <<"n", "1">>, kwargs |-> << >>],
                     [username |-> <<"n", "1">>, kwargs |-> [role |-> None]]}
        \* a stored doctor and an id of no doctor
        DoctorIdArgs == {1, NextId(doctors)}
        MedicalRecordKwargs == {<< >>, [follow_up_required |-> None]}
    IN
        \/ \E in \in NewUsers :
               /\ Cardinality(DOMAIN users) < Cardinality(DOMAIN ProfileUsers) + MaxUsers
               /\ CreateUser(1, AnonymousUser, in.username, <<"e", "9">>, in.kwargs)
        \/ \E user \in WriteCallers : \E doctor_id \in DoctorIdArgs :
               /\ Cardinality(appointments) < MaxAppts
               /\ CreateAppointment(1, user, 1, doctor_id, 1, << >>)
        \/ \E user \in WriteCallers : \E id \in IdArgs(appointments) :
               UpdateAppointment(1, user, id, AppointmentUpdate)
        \/ \E user \in WriteCallers : \E doctor_id \in DoctorIdArgs :
           \E kwargs \in MedicalRecordKwargs :
               /\ Cardinality(medical_records) < MaxRecords
               /\ CreateMedicalRecord(1, user, 1, doctor_id, 1, T_Fl, T_Fl, kwargs)
        \/ \E user \in WriteCallers : \E id \in {1, NextId(medical_records)} :
               UpdateMedicalRecord(1, user, id, MedicalRecordUpdate)
        \/ \E user \in WriteCallers : \E user_id \in {4, 9} :
           \E license_number \in {<<"D", "1">>, <<"D", "9">>} :
               CreateDoctor(1, user, user_id, T_Fl, license_number, << >>)
        \/ \E user \in WriteCallers : \E id \in {2, NextId(doctors)} :
               UpdateDoctor(1, user, id, DoctorUpdate)
        \/ \E user \in WriteCallers : \E user_id \in {2, 9} :
           \E mrn \in {<<"M", "1">>, <<"M", "9">>} :
               CreatePatient(1, user, user_id, mrn, << >>)
        \/ \E user \in WriteCallers : \E id \in {2, NextId(patients)} :
               UpdatePatient(1, user, id, PatientUpdate)

SpecWrite == InitProfiles /\ [][NextWrite]_vars

\* C15: an update mutation answers a caller who names a stored record that
\* the caller's list query does not return exactly as it answers the same
\* caller naming an id no record has.
C15_UpdateHidesExistence ==
    [][\A user \in {1, 2, 3, 4, 7} :
        /\ \A a \in appointments \ resolve_all_appointments(user) :
               UpdateAppointment(1, user, a.id, AppointmentUpdate)
               => UpdateAppointment(1, user, NextId(appointments), AppointmentUpdate)
        /\ \A m \in medical_records \ resolve_all_medical_records(user) :
               UpdateMedicalRecord(1, user, m.id, MedicalRecordUpdate)
               => UpdateMedicalRecord(1, user, NextId(medical_records),
                                      MedicalRecordUpdate)
        /\ \A p \in patients \ resolve_all_patients(user) :
               UpdatePatient(1, user, p.id, PatientUpdate)
               => UpdatePatient(1, user, NextId(patients), PatientUpdate)]_vars

\* doctor 2 (user 3) named doctor 1's stored appointment in updateAppointment
\* and was answered "Permission denied", where an id of no appointment is
\* answered "Appointment not found"
C15_Witness ==
    /\ response.op = "updateAppointment"
    /\ response.caller = 3
    /\ response.errors = <<"Permission denied">>
    /\ appointments # {}
    /\ resolve_all_appointments(3) = {}

WriteMutations ==
    {"createUser", "createAppointment", "updateAppointment", "createMedicalRecord",
     "updateMedicalRecord", "createDoctor", "updateDoctor", "createPatient",
     "updatePatient"}

----------------------------------------------------------------------------
(* SpecStatus: the admin books appointments with doctor 1, and the admin   *)
(* and doctor 1 set their status through updateAppointment to each of the  *)
(* six choices and to a string that is none of them.                       *)

NextStatus ==
    LET StatusArgs == Status \cup {"DONE"}
    IN
        \/ \E appointment_date \in Timestamps :
               /\ Cardinality(appointments) < MaxAppts
               /\ CreateAppointment(1, 1, 1, 1, appointment_date, << >>)
        \/ \E user \in {1, 2} : \E id \in IdArgs(appointments) :
           \E status \in StatusArgs :
               UpdateAppointment(1, user, id, [status |-> Some(status)])

SpecStatus == Init /\ [][NextStatus]_vars

\* the transition relation of the appointment life cycle
Transitions ==
    {<<"SCHEDULED", "CONFIRMED">>, <<"SCHEDULED", "CANCELLED">>,
     <<"SCHEDULED", "NO_SHOW">>, <<"CONFIRMED", "IN_PROGRESS">>,
     <<"CONFIRMED", "CANCELLED">>, <<"CONFIRMED", "NO_SHOW">>,
     <<"IN_PROGRESS", "COMPLETED">>}

\* C17: every change of a stored appointment's status follows the
\* transition relation, so the status of a COMPLETED, CANCELLED or NO_SHOW
\* appointment never changes again.
C17_LegalTransitions ==
    [][\A a \in appointments : \A b \in appointments' :
           (a.id = b.id /\ a.status # b.status)
           => <<a.status, b.status>> \in Transitions]_vars

\* C18: the status of every stored appointment is one of the six choices.
C18_StatusInChoices == \A a \in appointments : a.status \in Status

\* updateAppointment(status: "DONE") succeeded and the row it returned and
\* stored has that status
C18_Witness ==
    /\ response.op = "updateAppointment"
    /\ response.success
    /\ \E a \in response.entity : a.status = "DONE" /\ a \in appointments

----------------------------------------------------------------------------
(* SpecBook: the admin and doctor 1 book appointments, bare ones for       *)
(* patient 1 and ones with every optional field for patient 2, with doctor *)
(* 1, and the admin bare ones for patient 2 with doctor 2; the admin       *)
(* cancels and moves the first appointment; both read appointments back by *)
(* id; doctor 1 reads and updates patients; and is_upcoming / is_past are  *)
(* read off the stored rows at clock readings before, at and after every   *)
(* timestamp.                                                              *)

BookInputs ==
    {[patient_id |-> 1, doctor_id |-> 1, kwargs |-> << >>],
     [patient_id |-> 2, doctor_id |-> 1,
      kwargs |-> [reason_for_visit |-> Some(T_Fl), notes |-> Some(T_Xr),
                  duration_minutes |-> Some(60)]],
     [patient_id |-> 2, doctor_id |-> 2, kwargs |-> << >>]}

\* what timezone.now() may read
ClockReadings == 0 .. (MaxTime + 1)

NextBook ==
    LET
        BookUpdateKwargs ==
            {[status |-> Some("CANCELLED")]}
            \cup {[appointment_date |-> Some(t)] : t \in Timestamps}
        Resolve(r) ==
            /\ pending[1] = Idle
            /\ Answer(1, r)
            /\ UNCHANGED <<tables, pending>>
    IN
        \/ \E user \in {1, 2} : \E in \in BookInputs :
           \E appointment_date \in Timestamps :
               /\ Cardinality(appointments) < MaxAppts
               /\ CreateAppointment(1, user, in.patient_id, in.doctor_id,
                                    appointment_date, in.kwargs)
        \/ \E id \in {1, NextId(appointments)} : \E kwargs \in BookUpdateKwargs :
               UpdateAppointment(1, 1, id, kwargs)
        \/ \E user \in {1, 2} : \E id \in IdArgs(appointments) :
               AppointmentById(1, user, id)
        \/ \E id \in IdArgs(patients) : PatientById(1, 2, id)
        \/ \E id \in {2, NextId(patients)} : UpdatePatient(1, 2, id, PatientUpdate)
        \/ \E a \in appointments : \E now \in ClockReadings :
               Resolve([op |-> "is_upcoming, is_past", appointment |-> a, now |-> now,
                        is_upcoming |-> is_upcoming(a, now),
                        is_past |-> is_past(a, now)])

SpecBook == Init /\ [][NextBook]_vars

----------------------------------------------------------------------------
(* Deleting rows.  The schema has no delete mutation; rows are deleted     *)
(* through the admin site, where User, Doctor and Patient are registered   *)
(* (users/admin.py, doctors/admin.py, patients/admin.py).  Every foreign   *)
(* key and one-to-one field is declared on_delete=models.CASCADE           *)
(* (doctors/models.py 9, patients/models.py 9, appointments/models.py      *)
(* 18-19, medical_records/models.py 10-11).                                *)

\* (variant: the referencing rows are left as they are)
DO_NOTHING(rows, field, deleted) == rows

\* on_delete=models.CASCADE: the rows whose field names a deleted row go too
CASCADE(rows, field, deleted) == {r \in rows : r[field] \notin deleted}

\* model.delete() of the row of the given model with the given id
Delete(s, model, id) ==
    LET deleted_users == IF model = "User" THEN {id} ELSE {}
        doctors_left ==
            CASCADE(IF model = "Doctor" THEN doctors \ Get(doctors, id) ELSE doctors,
                    "user", deleted_users)
        patients_left ==
            CASCADE(IF model = "Patient" THEN patients \ Get(patients, id)
                    ELSE patients,
                    "user", deleted_users)
        deleted_doctors == {d.id : d \in doctors \ doctors_left}
        deleted_patients == {p.id : p \in patients \ patients_left}
    IN
        /\ pending[s] = Idle
        /\ CASE model = "User" -> id \in DOMAIN users
             [] model = "Doctor" -> Get(doctors, id) # {}
             [] model = "Patient" -> Get(patients, id) # {}
        /\ users' = [u \in DOMAIN users \ deleted_users |-> users[u]]
        /\ doctors' = doctors_left
        /\ patients' = patients_left
        /\ appointments' =
               CASCADE(CASCADE(appointments, "doctor", deleted_doctors),
                       "patient", deleted_patients)
        /\ medical_records' =
               CASCADE(CASCADE(medical_records, "doctor", deleted_doctors),
                       "patient", deleted_patients)
        /\ Answer(s, [op |-> "delete", model |-> model, id |-> id])
        /\ UNCHANGED pending

NextDelete ==
    \/ \E patient_id \in {1, 2} : \E doctor_id \in {1, 2} :
       \E appointment_date \in Timestamps :
           /\ Cardinality(appointments) < MaxAppts
           /\ CreateAppointment(1, 1, patient_id, doctor_id, appointment_date, << >>)
    \/ \E patient_id \in {1, 2} : \E doctor_id \in {1, 2} :
           /\ Cardinality(medical_records) < MaxRecords
           /\ CreateMedicalRecord(1, 1, patient_id, doctor_id, 1, T_Fl, T_Fl, << >>)
    \/ \E id \in {2, 5} : Delete(1, "User", id)
    \/ \E id \in {1, 2} : Delete(1, "Doctor", id)
    \/ \E id \in {1, 2} : Delete(1, "Patient", id)

SpecDelete == InitUsers /\ [][NextDelete]_vars

\* every appointment and medical record names a stored doctor and patient
ReferencesExist ==
    \A r \in appointments \cup medical_records :
        Get(doctors, r.doctor) # {} /\ Get(patients, r.patient) # {}

\* C22: in every reachable state every appointment and every medical
\* record references a doctor and a patient that exist; a create naming an
\* absent patient or doctor id fails with the not-found error and stores
\* nothing; and deleting a doctor, a patient or the user owning one leaves
\* no appointment or medical record that references it.
C22_ReferencesExist ==
    /\ [](ReferencesExist)
    /\ [][/\ \A patient_id \in {1, 2} : \A doctor_id \in {1, 2} :
              (/\ Get(patients, patient_id) = {} \/ Get(doctors, doctor_id) = {}
               /\ \/ \E t \in Timestamps :
                         CreateAppointment(1, 1, patient_id, doctor_id, t, << >>)
                  \/ CreateMedicalRecord(1, 1, patient_id, doctor_id, 1, T_Fl, T_Fl,
                                         << >>))
              => /\ ~response'.success
                 /\ response'.errors = <<"Patient or Doctor not found">>
                 /\ UNCHANGED tables
          /\ response'.op = "delete" =>
               LET gone(rows) == {r.id : r \in rows} \ {r.id : r \in rows'}
               IN  \A r \in appointments \cup medical_records :
                       (r.doctor \in gone(doctors) \/ r.patient \in gone(patients))
                       => r \notin appointments' \cup medical_records']_vars

\* the user of the first doctor was deleted: the doctor, its appointment and
\* its medical record went with it, the other doctor's appointment stays
C22_Witness ==
    /\ response = [op |-> "delete", model |-> "User", id |-> 2]
    /\ Get(doctors, 1) = {}
    /\ \E a \in appointments : a.doctor = 2
    /\ medical_records = {}

\* C23: after a successful createAppointment, appointmentById for the
\* returned id by the creator returns an appointment whose patient, doctor,
\* appointment_date and every supplied optional field (reason_for_visit,
\* notes, duration_minutes) equal the payload, with status SCHEDULED.
C23_CreateThenRead ==
    [][response'.op = "createAppointment" =>
       \A user \in {response'.caller} : \A in \in BookInputs : \A t \in Timestamps :
         (/\ CreateAppointment(1, user, in.patient_id, in.doctor_id, t, in.kwargs)
          /\ response'.success)
         => \E id \in IdArgs(appointments) :
              /\ response'.entity # None
              /\ Val(response'.entity).id = id
              /\ LET read == resolve_appointment_by_id(user, id)'
                 IN  /\ read # None
                     /\ Val(read).patient = in.patient_id
                     /\ Val(read).doctor = in.doctor_id
                     /\ Val(read).appointment_date = t
                     /\ Val(read).status = "SCHEDULED"
                     /\ Supplied(in.kwargs, "reason_for_visit") =>
                            Val(read).reason_for_visit = in.kwargs.reason_for_visit
                     /\ Supplied(in.kwargs, "notes") =>
                            Val(read).notes = in.kwargs.notes
                     /\ Supplied(in.kwargs, "duration_minutes") =>
                            Val(read).duration_minutes
                                = Val(in.kwargs.duration_minutes)]_vars

\* the doctor has just created an appointment with all three optional
\* fields supplied and reads it back as created
C23_Witness ==
    /\ response.op = "createAppointment"
    /\ response.caller = 2
    /\ response.success
    /\ \E a \in response.entity :
           /\ a.reason_for_visit = Some(T_Fl)
           /\ a.notes = Some(T_Xr)
           /\ a.duration_minutes = 60
           /\ resolve_appointment_by_id(2, a.id) = Some(a)

\* C25: the booking-conflict check compares timestamps for equality only.
\* With a SCHEDULED appointment of doctor D stored at T, of any duration, a
\* createAppointment for D by the admin or by D at a timestamp T' # T that
\* no appointment of D holds succeeds, also when T' lies inside the stored
\* appointment's duration (timestamps read in minutes).
C25_ExactEqualityOnly ==
    [][response'.op = "createAppointment" =>
       \A user \in {response'.caller} : \A in \in BookInputs : \A t \in Timestamps :
         (/\ CreateAppointment(1, user, in.patient_id, in.doctor_id, t, in.kwargs)
          /\ is_admin(user) \/ UserOfDoctor(in.doctor_id) = Some(user)
          /\ \E a \in appointments :
                 /\ a.doctor = in.doctor_id
                 /\ a.status = "SCHEDULED"
                 /\ a.appointment_date # t
          /\ \A a \in appointments :
                 a.doctor = in.doctor_id => a.appointment_date # t)
         => /\ response'.success
            /\ \E new \in appointments' \ appointments :
                   /\ response'.entity = Some(new)
                   /\ new.doctor = in.doctor_id
                   /\ new.appointment_date = t]_vars

\* the doctor holds a SCHEDULED appointment of sixty minutes and has just
\* booked another one a minute after its start
C25_Witness ==
    /\ response.op = "createAppointment"
    /\ response.success
    /\ \E new \in response.entity : \E a \in appointments :
           /\ a.doctor = new.doctor
           /\ a.status = "SCHEDULED"
           /\ a.duration_minutes = 60
           /\ new.appointment_date = a.appointment_date + 1
           /\ new \in appointments

\* C26: in every reachable state no two stored appointments, whatever
\* their statuses, have the same (doctor, appointment_date); and a
\* createAppointment for a doctor at a timestamp that a stored appointment
\* of that doctor has, whatever its status, stores nothing and fails.
C26_SlotStaysBlocked ==
    /\ [](\A a \in appointments : \A b \in appointments :
              (a.doctor = b.doctor /\ a.appointment_date = b.appointment_date)
              => a = b)
    /\ [][response'.op = "createAppointment" =>
          \A user \in {response'.caller} : \A in \in BookInputs : \A t \in Timestamps :
            (/\ CreateAppointment(1, user, in.patient_id, in.doctor_id, t, in.kwargs)
             /\ \E a \in appointments :
                    a.doctor = in.doctor_id /\ a.appointment_date = t)
            => /\ ~response'.success
               /\ response'.entity = None
               /\ appointments' = appointments]_vars

\* the only stored appointment is CANCELLED, and a create for its slot got
\* past the time-slot check and was refused by the table
C26_Witness ==
    /\ response.op = "createAppointment"
    /\ response.errors = IntegrityErrorUnique
    /\ Cardinality(appointments) = 1
    /\ \A a \in appointments : a.status = "CANCELLED"

\* C27: an updateAppointment that the store rejects - here the admin moving
\* an appointment onto a timestamp that another appointment of the same
\* doctor has - returns success=false with an error string and no
\* appointment, and leaves every stored appointment exactly as it was; and
\* no failed updateAppointment changes the store.
C27_RejectedUpdateWritesNothing ==
    [][/\ response'.op = "updateAppointment" =>
          \A id \in {1, NextId(appointments)} : \A t \in Timestamps :
            (/\ UpdateAppointment(1, 1, id, [appointment_date |-> Some(t)])
             /\ \E old \in Get(appointments, id) : \E other \in appointments :
                    /\ other.id # id
                    /\ other.doctor = old.doctor
                    /\ other.appointment_date = t)
            => /\ response'.success = FALSE
               /\ response'.entity = None
               /\ Len(response'.errors) = 1
               /\ appointments' = appointments
       /\ (response'.op = "updateAppointment" /\ ~response'.success)
              => UNCHANGED tables]_vars

\* the doctor has two appointments at different timestamps, and the update
\* that would have moved one onto the other's was refused by the table
C27_Witness ==
    /\ response.op = "updateAppointment"
    /\ response.success = FALSE
    /\ response.errors = IntegrityErrorUnique
    /\ \E a \in appointments : \E b \in appointments :
           /\ a.doctor = b.doctor
           /\ a.appointment_date # b.appointment_date

UpdateMutations ==
    {"updateAppointment", "updateMedicalRecord", "updateDoctor", "updatePatient"}

\* C28: no update mutation changes which patient or which doctor an
\* appointment or a medical record references, and none changes the user,
\* the license_number or the medical_record_number of a doctor or patient
\* profile; an update neither adds nor removes a row.
C28_OwnershipConstant ==
    [][response'.op \in UpdateMutations =>
         /\ \A a \in appointments : \E b \in appointments' :
                a.id = b.id /\ a.patient = b.patient /\ a.doctor = b.doctor
         /\ \A m \in medical_records : \E n \in medical_records' :
                m.id = n.id /\ m.patient = n.patient /\ m.doctor = n.doctor
         /\ \A d \in doctors : \E e \in doctors' :
                d.id = e.id /\ d.user = e.user /\ d.license_number = e.license_number
         /\ \A p \in patients : \E q \in patients' :
                /\ p.id = q.id /\ p.user = q.user
                /\ p.medical_record_number = q.medical_record_number
         /\ Cardinality(appointments') = Cardinality(appointments)
         /\ Cardinality(medical_records') = Cardinality(medical_records)
         /\ Cardinality(doctors') = Cardinality(doctors)
         /\ Cardinality(patients') = Cardinality(patients)
         /\ users' = users]_vars

\* all four kinds of row have been updated, the patient profile last, and
\* each still names the patient, doctor, user and number it was created with
C28_Witness ==
    /\ response.op = "updatePatient"
    /\ response.success
    /\ \E p \in response.entity :
           /\ p \in patients
           /\ p.address = PatientUpdate.address
           /\ p.user = 5 /\ p.medical_record_number = <<"M", "2">>
    /\ \E d \in doctors :
           /\ d.specialization = Val(DoctorUpdate.specialization)
           /\ d.user = 3 /\ d.license_number = <<"D", "2">>
    /\ \E a \in appointments :
           a.status = "CANCELLED" /\ a.patient = 1 /\ a.doctor = 1
    /\ \E m \in medical_records :
           m.diagnosis = T_Xr /\ m.patient = 1 /\ m.doctor = 1

----------------------------------------------------------------------------
(* SpecEscalate: the admin is away.  The acting party is unauthenticated   *)
(* or holds the principal of doctor 1 (user 2) or of patient 1 (user 4).   *)
(* It chose the password of every user it creates with createUser, so      *)
(* login (users/schema.py 88-126) hands it that user's token: the party     *)
(* also acts as every user that is not in the fixture.                      *)

NextEscalate ==
    LET
        Created == DOMAIN users \ DOMAIN FixtureUsers
        Party == {2, 4} \cup Created
        EscalateKwargs == {<< >>, [role |-> Some("ADMIN")]}
    IN
        \/ \E caller \in {AnonymousUser, 2, 4} :
           \E username \in {<<"n", "1">>, <<"n", "2">>} :
           \E kwargs \in EscalateKwargs :
               /\ Cardinality(DOMAIN users) < Cardinality(DOMAIN FixtureUsers) + MaxUsers
               /\ CreateUser(1, caller, username, <<"e", "9">>, kwargs)
        \/ \E user \in Party : \E user_id \in Created :
               CreateDoctor(1, user, user_id, T_Fl, <<"D", "9">>, << >>)
        \/ \E user \in Party : \E user_id \in Created :
               CreatePatient(1, user, user_id, <<"M", "9">>, << >>)
        \/ \E user \in Party :
               /\ pending[1] = Idle
               /\ Answer(1, Listed("allUsers", user, << >>, resolve_all_users(user)))
               /\ UNCHANGED <<tables, pending>>
        \/ \E user \in Party : AllMedicalRecords(1, user)

SpecEscalate == InitUsers /\ [][NextEscalate]_vars

\* C29: no sequence of operations by a party that is unauthenticated or
\* holds only a PATIENT or DOCTOR principal lets it act with ADMIN rights:
\* no user the party creates has the role ADMIN, no createDoctor or
\* createPatient of the party succeeds, allUsers returns it nothing and
\* allMedicalRecords returns it only records it is the doctor or the
\* patient of.
C29_NoAdminRights ==
    /\ [](\A u \in DOMAIN users \ DOMAIN FixtureUsers : users[u].role # "ADMIN")
    /\ [][LET r == response'
          IN  /\ r.op \in {"createDoctor", "createPatient"} => ~r.success
              /\ r.op = "allUsers" => r.rows = {}
              /\ r.op = "allMedicalRecords" =>
                     \A m \in r.rows :
                         DoctorUserIs(m, r.caller) \/ PatientUserIs(m, r.caller)]_vars

\* a user that createUser made an ADMIN for an unauthenticated caller has
\* created a doctor profile
C29_Witness ==
    /\ response.op = "createDoctor"
    /\ response.success
    /\ response.caller \notin DOMAIN FixtureUsers
    /\ users[response.caller].role = "ADMIN"
    /\ \E d \in doctors : d.license_number = <<"D", "9">>

\* the patients doctor 1 (user 2) may read, and those the doctor may update
ReadableBy2 == {p.id : p \in PatientsVisibleTo(2)}

WritableBy2 == {p.id : p \in {q \in patients : UpdatePatientReject(2, q) = << >>}}

\* C30: the sets of patients a DOCTOR caller may read and may update change
\* only in steps that change the appointments of that doctor;
\* createAppointment by the doctor for their own profile at a timestamp
\* none of their appointments has succeeds for every stored patient; and
\* after a successful createAppointment by the doctor naming a patient the
\* doctor had no appointment with, patientById and updatePatient for that
\* patient by the doctor are permitted.
C30_LinkByOwnAppointment ==
    [][/\ (ReadableBy2' # ReadableBy2 \/ WritableBy2' # WritableBy2)
              => {a \in appointments : a.doctor = 1}'
                     # {a \in appointments : a.doctor = 1}
       /\ (response'.op = "createAppointment" /\ response'.caller = 2) =>
          \A in \in BookInputs : \A t \in Timestamps :
            CreateAppointment(1, 2, in.patient_id, in.doctor_id, t, in.kwargs)
            => /\ (/\ in.doctor_id = 1
                   /\ \A a \in appointments :
                          a.doctor = 1 => a.appointment_date # t)
                      => response'.success
               /\ (response'.success /\ in.patient_id \notin ReadableBy2)
                      => /\ resolve_patient_by_id(2, in.patient_id)' # None
                         /\ \A p \in Get(patients, in.patient_id)' :
                                UpdatePatientReject(2, p)' = << >>]_vars

\* the doctor's only appointment is one the doctor created with patient 2,
\* and the doctor has just updated that patient's profile
C30_Witness ==
    /\ response.op = "updatePatient"
    /\ response.caller = 2
    /\ response.success
    /\ \E p \in response.entity : p.id = 2 /\ p.address = PatientUpdate.address
    /\ \E a \in appointments : a.doctor = 1 /\ a.patient = 2
    /\ \A a \in appointments : a.doctor = 1 => a.patient = 2

====
